---- MODULE Spec2Model ----
(***************************************************************************)
(* A model of the cilkhilite pygments plugin: the CilkLexer classifier     *)
(* callbacks (cilklexer.py) and the token loops of the two formatters,     *)
(* CilkBookFormatter (cilkformatter.py) and CHRtfFormatter                 *)
(* (chrtfformatter.py).                                                    *)
(*                                                                         *)
(* Text is a sequence of one-character strings.  A token type is the path  *)
(* of its names below the root Token, so Comment.Invisible.End is          *)
(* <<"Comment", "Invisible", "End">> and Token itself is <<>>.             *)
(***************************************************************************)
EXTENDS Integers, Sequences, FiniteSets, TLC

(***************************************************************************)
(* Bounds of the model.                                                    *)
(***************************************************************************)
\* tokens fed to one formatter run
MaxTokens == 2
\* rule matches of one classifier scan
MaxMatches == 3
\* rule matches over all lexer instances and scans of the shared-state runs
MaxSteps == 2

(***************************************************************************)
(* Text helpers.                                                           *)
(***************************************************************************)
NL == "\n"
BS == "\\"
\* the vertical tab, which has no escape in a TLA+ string
VT == "<VT>"

\* str.replace(old, new) for a one-character old
RECURSIVE Replace(_, _, _)
Replace(text, old, new) ==
    IF text = <<>> THEN <<>>
    ELSE (IF Head(text) = old THEN new ELSE <<Head(text)>>)
         \o Replace(Tail(text), old, new)

\* the length of the longest prefix of text made of characters of cs
RECURSIVE PrefixRun(_, _)
PrefixRun(text, cs) ==
    IF text = <<>> \/ Head(text) \notin cs THEN 0
    ELSE 1 + PrefixRun(Tail(text), cs)

Drop(text, n) == SubSeq(text, n + 1, Len(text))

StartsWith(text, prefix) ==
    /\ Len(prefix) <= Len(text)
    /\ SubSeq(text, 1, Len(prefix)) = prefix

\* str.split(sep) for a one-character sep: always at least one piece
RECURSIVE Split(_, _)
Split(text, sep) ==
    LET n == PrefixRun(text, {c \in {text[i] : i \in 1..Len(text)} : c # sep})
    IN  IF n = Len(text) THEN <<text>>
        ELSE <<SubSeq(text, 1, n)>> \o Split(Drop(text, n + 1), sep)

RECURSIVE Count(_, _)
Count(text, c) ==
    IF text = <<>> THEN 0
    ELSE (IF Head(text) = c THEN 1 ELSE 0) + Count(Tail(text), c)

\* the characters str.strip() removes
WhiteSpace == {" ", "\t", "\n", "\r", "\f", VT}

RECURSIVE RStrip(_)
RStrip(text) ==
    IF text = <<>> \/ text[Len(text)] \notin WhiteSpace THEN text
    ELSE RStrip(SubSeq(text, 1, Len(text) - 1))

Strip(text) == RStrip(Drop(text, PrefixRun(text, WhiteSpace)))

ToSet(seq) == {seq[i] : i \in 1..Len(seq)}

(***************************************************************************)
(* Token types (pygments.token) as paths.                                  *)
(***************************************************************************)
Token == <<>>
Text == <<"Text">>
Comment == <<"Comment">>
Comment_Single == <<"Comment", "Single">>
Comment_Invisible == <<"Comment", "Invisible">>
Comment_Invisible_Begin == <<"Comment", "Invisible", "Begin">>
Comment_Invisible_End == <<"Comment", "Invisible", "End">>
Comment_PureTeX == <<"Comment", "PureTeX">>
Keyword == <<"Keyword">>
Keyword_Type == <<"Keyword", "Type">>
Keyword_Custom == <<"Keyword", "Custom">>
Keyword_Cilk == <<"Keyword", "Cilk">>
Comment_Multiline == <<"Comment", "Multiline">>
Comment_Emph_Begin == <<"Comment", "Emph", "Begin">>
Comment_Emph_End == <<"Comment", "Emph", "End">>
Comment_PureTex == <<"Comment", "PureTex">>
Operator == <<"Operator">>
Name_Label == <<"Name", "Label">>
Comment_Preproc == <<"Comment", "Preproc">>
Punctuation == <<"Punctuation">>
Other == <<"Other">>
Name == <<"Name">>
Name_Variable == <<"Name", "Variable">>
Name_Function == <<"Name", "Function">>
Name_Namespace == <<"Name", "Namespace">>
Name_Class == <<"Name", "Class">>

\* "ttype in base": ttype is base or one of its subtypes
In(ttype, base) == StartsWith(ttype, base)

\* ttype.parent
Parent(ttype) == SubSeq(ttype, 1, Len(ttype) - 1)

(***************************************************************************)
(* CilkLexer: the classifier lists and the callbacks (cilklexer.py).       *)
(*                                                                         *)
(* _custom_types and _custom_keywords are attributes of the class          *)
(* CilkLexer.  No method assigns lexer._custom_types; the callbacks only   *)
(* append to the list they read through the instance, which is the list    *)
(* of the class.  The model therefore has ONE pair of lists, whatever the  *)
(* number of lexer instances.                                              *)
(*                                                                         *)
(* A rule match is a record [rule, text]: the rule that matched and the    *)
(* text of the group its callback reads (group 1 for the identifier        *)
(* rules, group 5 for the Types:/Keywords: comments).                      *)
(***************************************************************************)
VARIABLES
    _custom_types,     \* CilkLexer._custom_types, a list
    _custom_keywords,  \* CilkLexer._custom_keywords, a list
    lexers,           \* per instance: [active, scans, pos]
    yielded,          \* per instance: the token its last rule match yielded
    steps,            \* rule matches so far, over all instances
    \* history of the scans, which the program does not keep
    scan_types,       \* per instance: type names registered by its current scan
    scan_keywords,    \* per instance: keyword names registered by its current scan
    inst_types,       \* per instance: type names registered by any of its scans
    inst_keywords,    \* per instance: keyword names registered by any of its scans
    classified,       \* per instance: the <<name, type>> pairs that the classifying
                      \* callbacks of its current scan yielded as a custom type or
                      \* a custom keyword
    fresh_types,      \* per instance: the type list of its current scan run alone
    fresh_keywords,   \* per instance: the keyword list of its current scan run alone
    expected          \* per instance: the token its last match yields run alone

lexvars == <<_custom_types, _custom_keywords, lexers, yielded, steps,
             scan_types, scan_keywords, inst_types, inst_keywords, classified,
             fresh_types, fresh_keywords, expected>>

\* the lexer instances of one process
Lexers == {1, 2}
\* scans (conversions) one instance may run
MaxScans == 2

\* identifiers of the scanned text: [a-zA-Z_][a-zA-Z0-9_]*
Idents == {<<"a">>, <<"b">>}

\* the rules of CilkLexer.tokens that match a bare identifier or a
\* Types:/Keywords: comment: the lexical state, the action of the rule
\* and, for a fixed token type, that type
Rules ==
    [ whitespace_149  |-> [state |-> "whitespace", action |-> "customtypes_callback"],
      whitespace_151  |-> [state |-> "whitespace", action |-> "customtypes_callback"],
      whitespace_154  |-> [state |-> "whitespace", action |-> "customkeywords_callback"],
      namespace_343   |-> [state |-> "namespace", action |-> "checknamespace_callback"],
      classname_414   |-> [state |-> "classname", action |-> "classname_callback"],
      struct_432      |-> [state |-> "struct", action |-> "typedef_callback"],
      type_492        |-> [state |-> "type", action |-> "checkcustom_callback"],
      decl_590        |-> [state |-> "decl", action |-> "function_callback"],
      variable_668    |-> [state |-> "variable", action |-> "variable_callback"],
      statements_776  |-> [state |-> "statements", action |-> "token", ttype |-> Name],
      statements_779  |-> [state |-> "statements", action |-> "checkcustom_callback"],
      statements_786  |-> [state |-> "statements", action |-> "token", ttype |-> Name],
      class_1038      |-> [state |-> "class", action |-> "token", ttype |-> Name_Function],
      class_1057      |-> [state |-> "class", action |-> "token", ttype |-> Name_Variable] ]

RuleNames == DOMAIN Rules

CommentRules == {r \in RuleNames : Rules[r].action \in
                    {"customtypes_callback", "customkeywords_callback"}}
IdentRules == RuleNames \ CommentRules

RegisteringCallbacks == {"customtypes_callback", "customkeywords_callback",
                         "typedef_callback", "classname_callback"}
ClassifyingCallbacks == {"variable_callback", "function_callback",
                         "checkcustom_callback", "checknamespace_callback"}

\* group(1) of the comment rules, the comment head
CommentHead(rule) ==
    CASE rule = "whitespace_149" -> <<"/", "/", "/", "T", "y", "p", "e", "s", ":">>
      [] rule = "whitespace_151" -> <<"/", "*", "*", "*", "T", "y", "p", "e", "s", ":">>
      [] rule = "whitespace_154" ->
             <<"/", "/", "/", "K", "e", "y", "w", "o", "r", "d", "s", ":">>

\* what follows group(5) in the match: the block comment's closing ***/
CommentTail(rule) ==
    IF rule = "whitespace_151" THEN <<"*", "*", "*", "/">> ELSE <<>>

\* texts of a comment's list of names, before the end of the comment: one
\* name, two names, a name twice, names with spaces around and between,
\* and no name at all
PayloadTexts ==
    {<<"a">>, <<"a", " ", "b">>, <<"a", " ", "a">>, <<" ", "b", " ">>,
     <<"b", " ", " ", "a">>, <<" ">>}

\* the texts group(5) can be: (.*?[^\\]\n) for the line comments, which
\* ends with the newline, (.*?) for the block comment
Payloads(rule) ==
    IF rule = "whitespace_151"
    THEN PayloadTexts \cup {<<>>}
    ELSE {p \o <<NL>> : p \in PayloadTexts}

\* RegisterListed without the test "not in list"
RegisterListed_always(list, new) ==
    IF Strip(new) # <<>> THEN Append(list, Strip(new)) ELSE list

\* "if new.strip() != '' and new.strip() not in list: list.append(new.strip())"
RegisterListed(list, new) ==
    IF Strip(new) # <<>> /\ Strip(new) \notin ToSet(list)
    THEN Append(list, Strip(new))
    ELSE list

\* the for loop of customtypes_callback and customkeywords_callback
RECURSIVE RegisterEach(_, _)
RegisterEach(list, pieces) ==
    IF pieces = <<>> THEN list
    ELSE RegisterEach(RegisterListed(list, Head(pieces)), Tail(pieces))

\* customtypes_callback that registers the first name of the list only
customtypes_callback_first(types, type_list) ==
    RegisterEach(types, SubSeq(Split(Strip(type_list), " "), 1, 1))

customtypes_callback(types, type_list) ==
    RegisterEach(types, Split(Strip(type_list), " "))

customkeywords_callback(keywords, keyword_list) ==
    RegisterEach(keywords, Split(Strip(keyword_list), " "))

\* typedef_callback that starts the list anew
typedef_callback_reset(types, new_type) == <<Strip(new_type)>>

\* "if new_type.strip() not in lexer._custom_types: append(new_type.strip())"
typedef_callback(types, new_type) ==
    IF Strip(new_type) \notin ToSet(types)
    THEN Append(types, Strip(new_type))
    ELSE types

classname_callback(types, new_type) ==
    IF Strip(new_type) \notin ToSet(types)
    THEN Append(types, Strip(new_type))
    ELSE types

\* Classify with the two tests in the other order
Classify_keywords_first(types, keywords, name, default) ==
    IF Strip(name) \in ToSet(keywords) THEN Keyword_Custom
    ELSE IF Strip(name) \in ToSet(types) THEN Keyword_Type
    ELSE default

\* the if / elif / else chain shared by the four classifying callbacks
Classify(types, keywords, name, default) ==
    IF Strip(name) \in ToSet(types) THEN Keyword_Type
    ELSE IF Strip(name) \in ToSet(keywords) THEN Keyword_Custom
    ELSE default

variable_callback(types, keywords, name) ==
    Classify(types, keywords, name, Name_Variable)

function_callback(types, keywords, name) ==
    Classify(types, keywords, name, Name_Function)

\* checkcustom_callback that does not consult the lists
checkcustom_unchecked(types, keywords, name) == Name

checkcustom_callback(types, keywords, name) ==
    Classify(types, keywords, name, Name)

checknamespace_callback(types, keywords, name) ==
    Classify(types, keywords, name, Name_Namespace)

\* the type list after the action of rule has run on text
TypesAfter(types, rule, text) ==
    CASE Rules[rule].action = "customtypes_callback" -> customtypes_callback(types, text)
      [] Rules[rule].action = "typedef_callback" -> typedef_callback(types, text)
      [] Rules[rule].action = "classname_callback" -> classname_callback(types, text)
      [] OTHER -> types

\* the keyword list after the action of rule has run on text
KeywordsAfter(keywords, rule, text) ==
    IF Rules[rule].action = "customkeywords_callback"
    THEN customkeywords_callback(keywords, text)
    ELSE keywords

\* the token the action of rule yields for text
TokenOf(types, keywords, rule, text) ==
    LET a == Rules[rule].action
    IN  CASE a = "customtypes_callback" ->
                 [rule |-> rule, ttype |-> Comment_Invisible,
                  value |-> CommentHead(rule) \o text \o CommentTail(rule)]
          [] a = "customkeywords_callback" ->
                 [rule |-> rule, ttype |-> Comment_Invisible,
                  value |-> CommentHead(rule) \o text]
          [] a = "typedef_callback" ->
                 [rule |-> rule, ttype |-> Keyword_Type, value |-> text]
          [] a = "classname_callback" ->
                 [rule |-> rule, ttype |-> Name_Class, value |-> text]
          [] a = "variable_callback" ->
                 [rule |-> rule, ttype |-> variable_callback(types, keywords, text),
                  value |-> text]
          [] a = "function_callback" ->
                 [rule |-> rule, ttype |-> function_callback(types, keywords, text),
                  value |-> text]
          [] a = "checkcustom_callback" ->
                 [rule |-> rule, ttype |-> checkcustom_callback(types, keywords, text),
                  value |-> text]
          [] a = "checknamespace_callback" ->
                 [rule |-> rule, ttype |-> checknamespace_callback(types, keywords, text),
                  value |-> text]
          [] OTHER ->
                 [rule |-> rule, ttype |-> Rules[rule].ttype, value |-> text]

NoToken == [rule |-> "none", ttype |-> Token, value |-> <<>>]

(***************************************************************************)
(* Scans.  A scan is one run of get_tokens on a lexer instance: it yields  *)
(* the tokens of one input, one rule match at a time.  get_tokens is a     *)
(* generator, so the scans of two instances can be interleaved in any      *)
(* order within one thread.                                                *)
(***************************************************************************)
\* the rule matches of the scanned inputs
Matches ==
    {[rule |-> r, text |-> w] : r \in IdentRules, w \in Idents}
    \cup UNION {{[rule |-> r, text |-> t] : t \in Payloads(r)} : r \in CommentRules}

LexInit ==
    /\ _custom_types = <<>>
    /\ _custom_keywords = <<>>
    /\ lexers = [i \in Lexers |-> [active |-> FALSE, scans |-> 0, pos |-> 0]]
    /\ yielded = [i \in Lexers |-> NoToken]
    /\ steps = 0
    /\ scan_types = [i \in Lexers |-> {}]
    /\ scan_keywords = [i \in Lexers |-> {}]
    /\ inst_types = [i \in Lexers |-> {}]
    /\ inst_keywords = [i \in Lexers |-> {}]
    /\ classified = [i \in Lexers |-> {}]
    /\ fresh_types = [i \in Lexers |-> <<>>]
    /\ fresh_keywords = [i \in Lexers |-> <<>>]
    /\ expected = [i \in Lexers |-> NoToken]

\* lexer i starts to scan a new input.  Nothing in CilkLexer resets the
\* lists of the class.
get_tokens(i) ==
    /\ ~lexers[i].active
    /\ lexers[i].scans < MaxScans
    /\ lexers' = [lexers EXCEPT ![i] = [active |-> TRUE, scans |-> @.scans + 1, pos |-> 0]]
    /\ yielded' = [yielded EXCEPT ![i] = NoToken]
    /\ scan_types' = [scan_types EXCEPT ![i] = {}]
    /\ scan_keywords' = [scan_keywords EXCEPT ![i] = {}]
    /\ classified' = [classified EXCEPT ![i] = {}]
    /\ fresh_types' = [fresh_types EXCEPT ![i] = <<>>]
    /\ fresh_keywords' = [fresh_keywords EXCEPT ![i] = <<>>]
    /\ expected' = [expected EXCEPT ![i] = NoToken]
    /\ UNCHANGED <<_custom_types, _custom_keywords, steps, inst_types, inst_keywords>>

\* lexer i matches rule on text: the action of the rule runs and yields
\* one token
Match(i, rule, text) ==
    /\ lexers[i].active
    /\ _custom_types' = TypesAfter(_custom_types, rule, text)
    /\ _custom_keywords' = KeywordsAfter(_custom_keywords, rule, text)
    /\ yielded' = [yielded EXCEPT
                     ![i] = TokenOf(_custom_types, _custom_keywords, rule, text)]
    /\ lexers' = [lexers EXCEPT ![i].pos = @ + 1]
    /\ steps' = steps + 1
    /\ scan_types' = [scan_types EXCEPT ![i] = @ \cup ToSet(TypesAfter(<<>>, rule, text))]
    /\ inst_types' = [inst_types EXCEPT ![i] = @ \cup ToSet(TypesAfter(<<>>, rule, text))]
    /\ scan_keywords' =
           [scan_keywords EXCEPT ![i] = @ \cup ToSet(KeywordsAfter(<<>>, rule, text))]
    /\ inst_keywords' =
           [inst_keywords EXCEPT ![i] = @ \cup ToSet(KeywordsAfter(<<>>, rule, text))]
    /\ classified' =
           [classified EXCEPT ![i] =
               LET tok == TokenOf(_custom_types, _custom_keywords, rule, text)
               IN  IF /\ Rules[rule].action \in ClassifyingCallbacks
                      /\ tok.ttype \in {Keyword_Type, Keyword_Custom}
                   THEN @ \cup {<<Strip(text), tok.ttype>>}
                   ELSE @]
    /\ fresh_types' = [fresh_types EXCEPT ![i] = TypesAfter(@, rule, text)]
    /\ fresh_keywords' = [fresh_keywords EXCEPT ![i] = KeywordsAfter(@, rule, text)]
    /\ expected' = [expected EXCEPT
                      ![i] = TokenOf(fresh_types[i], fresh_keywords[i], rule, text)]

\* lexer i reaches the end of its input
EndOfInput(i) ==
    /\ lexers[i].active
    /\ lexers' = [lexers EXCEPT ![i].active = FALSE]
    /\ UNCHANGED <<_custom_types, _custom_keywords, yielded, steps, scan_types,
                   scan_keywords, inst_types, inst_keywords, classified,
                   fresh_types, fresh_keywords, expected>>

(***************************************************************************)
(* The style (cilkstyle.py) and the escaping of the two formatters.        *)
(*                                                                         *)
(* Output text is a sequence of characters.  A short name of a token       *)
(* type, a control word and a fixed piece of a header are written as one   *)
(* element each.                                                           *)
(***************************************************************************)
Error == <<"Error">>

\* CilkBookStyle.styles, for the token types of the model: the colour of
\* each styled type, and the border colour of Error
StyleColor ==
    [t \in {Text, Comment, Comment_Invisible, Keyword, Keyword_Type, Keyword_Cilk,
            Punctuation, Name, Name_Variable, Name_Function, Name_Namespace,
            Name_Class} |->
        CASE t = Text -> <<"0", "0", "0", "0", "0", "0">>
          [] t = Comment -> <<"B", "2", "2", "2", "2", "2">>
          [] t = Comment_Invisible -> <<"f", "f", "f", "f", "f", "f">>
          [] t = Keyword -> <<"9", "9", "0", "0", "F", "8">>
          [] t = Keyword_Type -> <<"6", "8", "9", "3", "0", "0">>
          [] t = Keyword_Cilk -> <<"F", "F", "0", "0", "0", "0">>
          [] t = Punctuation -> <<"6", "3", "2", "6", "1", "8">>
          [] t = Name -> <<"6", "3", "2", "6", "1", "8">>
          [] t = Name_Variable -> <<"B", "8", "8", "6", "0", "0">>
          [] t = Name_Function -> <<"0", "D", "0", "0", "F", "F">>
          [] t = Name_Namespace -> <<"3", "3", "C", "C", "C", "C">>
          [] t = Name_Class -> <<"0", "0", "B", "B", "0", "0">>]

\* pygments.token.STANDARD_TYPES, for the token types of the model
STANDARD_TYPES ==
    [t \in {Token, Text, Error, Other, Comment, Comment_Single, Keyword,
            Keyword_Type, Punctuation, Name, Name_Variable, Name_Function,
            Name_Namespace, Name_Class} |->
        CASE t = Token -> <<>>
          [] t = Text -> <<>>
          [] t = Error -> <<"err">>
          [] t = Other -> <<"x">>
          [] t = Comment -> <<"c">>
          [] t = Comment_Single -> <<"c1">>
          [] t = Keyword -> <<"k">>
          [] t = Keyword_Type -> <<"kt">>
          [] t = Punctuation -> <<"p">>
          [] t = Name -> <<"n">>
          [] t = Name_Variable -> <<"nv">>
          [] t = Name_Function -> <<"nf">>
          [] t = Name_Namespace -> <<"nn">>
          [] t = Name_Class -> <<"nc">>]

\* the token types the style iterates over ("for ttype, ndef in self.style"):
\* the standard types and the keys of CilkBookStyle.styles, in a fixed order
StyleTypes ==
    <<Token, Text, Error, Other, Comment, Comment_Single, Comment_Invisible,
      Keyword, Keyword_Type, Keyword_Cilk, Punctuation, Name, Name_Variable,
      Name_Function, Name_Namespace, Name_Class>>

\* Style.styles_token(ttype)
styles_token(ttype) == ttype \in ToSet(StyleTypes)

\* Style.style_for_token(ttype): a type without an entry of its own has the
\* style of its parent
RECURSIVE style_for_token(_)
style_for_token(ttype) ==
    IF ttype = Error
    THEN [color |-> <<>>, bgcolor |-> <<>>, border |-> <<"F", "F", "0", "0", "0", "0">>,
          bold |-> FALSE, italic |-> FALSE, underline |-> FALSE]
    ELSE IF ttype \in DOMAIN StyleColor
    THEN [color |-> StyleColor[ttype], bgcolor |-> <<>>, border |-> <<>>,
          bold |-> FALSE, italic |-> FALSE, underline |-> FALSE]
    ELSE IF ttype = Token
    THEN [color |-> <<>>, bgcolor |-> <<>>, border |-> <<>>,
          bold |-> FALSE, italic |-> FALSE, underline |-> FALSE]
    ELSE style_for_token(Parent(ttype))

\* _get_ttype_name(ttype)
RECURSIVE AncestorName(_)
AncestorName(ttype) ==
    IF ttype \in DOMAIN STANDARD_TYPES THEN STANDARD_TYPES[ttype]
    ELSE AncestorName(Parent(ttype)) \o <<ttype[Len(ttype)]>>

_get_ttype_name(ttype) ==
    IF ttype \in DOMAIN STANDARD_TYPES /\ STANDARD_TYPES[ttype] # <<>>
    THEN STANDARD_TYPES[ttype]
    ELSE AncestorName(ttype)

\* the option commandprefix, at its default
commandprefix == <<"P", "Y">>

\* stand-ins for the characters \x00, \x01, \x02 of escape_tex
X00 == "<00>"
X01 == "<01>"
X02 == "<02>"

\* r'\%sZxx{}' % commandprefix
Zcmd(cp, c1, c2) == <<BS>> \o cp \o <<"Z", c1, c2, "{", "}">>

\* the replacements of escape_tex, in the order they are applied
EscapeTexTable(cp) ==
    << <<BS, <<X00>>>>, <<"{", <<X01>>>>, <<"}", <<X02>>>>,
       <<X00, Zcmd(cp, "b", "s")>>, <<X01, Zcmd(cp, "o", "b")>>,
       <<X02, Zcmd(cp, "c", "b")>>, <<"^", Zcmd(cp, "c", "a")>>,
       <<"_", Zcmd(cp, "u", "s")>>, <<"&", Zcmd(cp, "a", "m")>>,
       <<"<", Zcmd(cp, "l", "t")>>, <<">", Zcmd(cp, "g", "t")>>,
       <<"#", Zcmd(cp, "s", "h")>>, <<"%", Zcmd(cp, "p", "c")>>,
       <<"$", Zcmd(cp, "d", "l")>>, <<"-", Zcmd(cp, "h", "y")>>,
       <<"'", Zcmd(cp, "s", "q")>>, <<"\"", Zcmd(cp, "d", "q")>>,
       <<"~", Zcmd(cp, "t", "i")>> >>

RECURSIVE ReplaceAll(_, _)
ReplaceAll(text, table) ==
    IF table = <<>> THEN text
    ELSE ReplaceAll(Replace(text, Head(table)[1], Head(table)[2]), Tail(table))

\* escape_tex without the placeholders \x00, \x01, \x02: the backslash and
\* the braces are replaced by their commands one after the other
escape_tex_direct(text, cp) ==
    ReplaceAll(text, << <<BS, Zcmd(cp, "b", "s")>>, <<"{", Zcmd(cp, "o", "b")>>,
                       <<"}", Zcmd(cp, "c", "b")>> >>
                    \o SubSeq(EscapeTexTable(cp), 7, Len(EscapeTexTable(cp))))

escape_tex(text, cp) == ReplaceAll(text, EscapeTexTable(cp))

\* CHRtfFormatter._escape
_escape(text) ==
    Replace(Replace(Replace(text, BS, <<BS, BS>>), "{", <<BS, "{">>), "}", <<BS, "}">>)

\* CHRtfFormatter._escape_text, for text of characters below 128
_escape_text(text) ==
    IF text = <<>> THEN <<>>
    ELSE Replace(_escape(text), NL, <<BS, "p", "a", "r", NL>>)

(***************************************************************************)
(* The token loop of a formatter.  The state of a run is a record          *)
(*   [skiptoken, initialindent, find_next_indent, newline, wrotelines,     *)
(*    out]                                                                 *)
(* of the local variables of format_unencoded and the text written to      *)
(* outfile; opts is the record of the formatter's options.                 *)
(***************************************************************************)
\* the characters of [ \t\f\v]
HSpace == {" ", "\t", "\f", VT}

\* re.match('^(' + initialindent + ')', line): initialindent is made of
\* characters of HSpace, which stand for themselves in a pattern
IndentMatch(initialindent, line) == StartsWith(line, initialindent)

\* "if reindent: ..." of CilkBookFormatter.format_unencoded: the state and
\* the value after the block; newlines at the start of value are written raw
CilkBook_reindent(s, ttype, value) ==
    LET n1 == PrefixRun(value, HSpace)
        captured == s.find_next_indent /\ ttype = Text /\ n1 > 0
        initialindent1 == IF captured THEN SubSeq(value, 1, n1) ELSE s.initialindent
        value1 == IF captured THEN Drop(value, n1) ELSE value
        newline1 == IF s.find_next_indent THEN FALSE ELSE s.newline
        nn == PrefixRun(value1, {NL})
        stripped == /\ nn = 0
                    /\ newline1
                    /\ ttype = Text
                    /\ IndentMatch(initialindent1, value1)
    IN  [state |-> [s EXCEPT !.initialindent = initialindent1,
                             !.find_next_indent = FALSE,
                             !.newline = nn > 0,
                             !.out = @ \o SubSeq(value1, 1, nn)],
         value |-> IF nn > 0 THEN Drop(value1, nn)
                   ELSE IF stripped THEN Drop(value1, Len(initialindent1))
                   ELSE value1]

\* the guess of the comment's start under texcomments: the run of the
\* first character is escaped, the rest is not
TexCommentValue(value, cp) ==
    LET n == IF value = <<>> THEN 0 ELSE PrefixRun(value, {value[1]})
    IN  escape_tex(SubSeq(value, 1, n), cp) \o Drop(value, n)

\* under mathescape: the parts outside $...$ are escaped
RECURSIVE MathParts(_, _, _)
MathParts(parts, in_math, cp) ==
    IF parts = <<>> THEN <<>>
    ELSE <<IF in_math THEN Head(parts) ELSE escape_tex(Head(parts), cp)>>
         \o MathParts(Tail(parts), ~in_math, cp)

RECURSIVE Join(_, _)
Join(parts, sep) ==
    IF Len(parts) = 0 THEN <<>>
    ELSE IF Len(parts) = 1 THEN parts[1]
    ELSE parts[1] \o sep \o Join(Tail(parts), sep)

MathEscapeValue(value, cp) == Join(MathParts(Split(value, "$"), FALSE, cp), <<"$">>)

\* CilkBook_escaped that escapes the value of a PureTeX comment as well
CilkBook_escaped_all(opts, ttype, value) ==
    IF In(ttype, Comment) /\ ~In(ttype, Comment_PureTeX)
    THEN IF opts.texcomments THEN TexCommentValue(value, commandprefix)
         ELSE IF opts.mathescape THEN MathEscapeValue(value, commandprefix)
         ELSE escape_tex(value, commandprefix)
    ELSE escape_tex(value, commandprefix)

\* the value of a token that is not an invisible comment, as the LaTeX
\* formatter writes it
CilkBook_escaped(opts, ttype, value) ==
    IF In(ttype, Comment) /\ ~In(ttype, Comment_PureTeX)
    THEN IF opts.texcomments THEN TexCommentValue(value, commandprefix)
         ELSE IF opts.mathescape THEN MathEscapeValue(value, commandprefix)
         ELSE escape_tex(value, commandprefix)
    ELSE IF ~In(ttype, Comment_PureTeX) THEN escape_tex(value, commandprefix)
    ELSE value

\* self.ttype2name after _create_stylesheet: the name of every type of the
\* style whose definition is not empty, and '' for Token
ttype2name ==
    [t \in {Token} \cup {u \in ToSet(StyleTypes) :
                LET d == style_for_token(u)
                IN  d.color # <<>> \/ d.border # <<>> \/ d.bgcolor # <<>>
                    \/ d.bold \/ d.italic \/ d.underline} |->
        IF t = Token THEN <<>> ELSE _get_ttype_name(t)]

\* the list styles of the while loop, most specific type first
RECURSIVE StyleNames(_)
StyleNames(ttype) ==
    IF ttype = Token THEN <<>>
    ELSE <<IF ttype \in DOMAIN ttype2name THEN ttype2name[ttype]
           ELSE _get_ttype_name(ttype)>>
         \o StyleNames(Parent(ttype))

Reverse(seq) == [i \in 1..Len(seq) |-> seq[Len(seq) + 1 - i]]

\* the class list left empty for a category that has no styled ancestor
StyleVal_styled(ttype) ==
    IF \E i \in 1..Len(ttype) : SubSeq(ttype, 1, i) \in DOMAIN ttype2name
    THEN Join(Reverse(StyleNames(ttype)), <<"+">>)
    ELSE <<>>

\* '+'.join(reversed(styles))
StyleVal(ttype) == Join(Reverse(StyleNames(ttype)), <<"+">>)

\* "\\%s{%s}{%s}" % (cp, styleval, line)
PYCommand(cp, styleval, line) ==
    <<BS>> \o cp \o <<"{">> \o styleval \o <<"}", "{">> \o line \o <<"}">>

\* the lines of a styled token: every line but the last
RECURSIVE CilkBook_styled_lines(_, _)
CilkBook_styled_lines(lines, styleval) ==
    IF lines = <<>> THEN <<>>
    ELSE (IF Head(lines) # <<>> THEN PYCommand(commandprefix, styleval, Head(lines))
          ELSE <<>>)
         \o <<NL>> \o CilkBook_styled_lines(Tail(lines), styleval)

\* the whole value written inside one command
CilkBook_write_styled_whole(s, styleval, value) ==
    [s EXCEPT !.out = @ \o PYCommand(commandprefix, styleval, value),
              !.newline = IF Count(value, NL) > 0 THEN TRUE ELSE @,
              !.wrotelines = @ \/ value # <<>>]

\* "if styleval: ..."
CilkBook_write_styled(s, styleval, value) ==
    LET spl == Split(value, NL)
        last == spl[Len(spl)]
    IN  [s EXCEPT
           !.out = @ \o CilkBook_styled_lines(SubSeq(spl, 1, Len(spl) - 1), styleval)
                     \o (IF last # <<>> THEN PYCommand(commandprefix, styleval, last)
                         ELSE <<>>),
           !.newline = IF Len(spl) > 1 THEN TRUE ELSE @,
           !.wrotelines = @ \/ Len(spl) > 1 \/ last # <<>>]

\* "Attempt to remove indentation"
Unindent(reindent, newline, initialindent, line) ==
    IF reindent /\ newline /\ IndentMatch(initialindent, line)
    THEN Drop(line, Len(initialindent))
    ELSE line

\* the lines of an unstyled token: every line but the last
RECURSIVE CilkBook_bare_lines(_, _, _, _)
CilkBook_bare_lines(lines, reindent, newline, initialindent) ==
    IF lines = <<>> THEN <<>>
    ELSE (IF Head(lines) # <<>>
          THEN Unindent(reindent, newline, initialindent, Head(lines))
          ELSE <<>>)
         \o <<NL>> \o CilkBook_bare_lines(Tail(lines), reindent, TRUE, initialindent)

\* "else: ..." of "if styleval"
CilkBook_write_bare(s, reindent, value) ==
    LET spl == Split(value, NL)
        last == spl[Len(spl)]
        newline1 == IF Len(spl) > 1 THEN TRUE ELSE s.newline
    IN  [s EXCEPT
           !.out = @ \o CilkBook_bare_lines(SubSeq(spl, 1, Len(spl) - 1), reindent,
                                             s.newline, s.initialindent)
                     \o (IF last # <<>>
                         THEN Unindent(reindent, newline1, s.initialindent, last)
                         ELSE <<>>),
           !.newline = IF last # <<>> THEN FALSE ELSE newline1,
           !.wrotelines = @ \/ Len(spl) > 1 \/ last # <<>>]

\* the body of the token loop for a token that is no region marker and is
\* not skipped: from "if reindent:" to the end of the body
CilkBook_visible(s, opts, ttype, value) ==
    LET r == IF opts.reindent THEN CilkBook_reindent(s, ttype, value)
             ELSE [state |-> s, value |-> value]
    IN  IF In(ttype, Comment) /\ ~In(ttype, Comment_PureTeX)
           /\ In(ttype, Comment_Invisible)
        THEN r.state
        ELSE LET v == CilkBook_escaped(opts, ttype, r.value)
                 styleval == StyleVal(ttype)
             IN  IF styleval # <<>>
                 THEN CilkBook_write_styled(r.state, styleval, v)
                 ELSE CilkBook_write_bare(r.state, opts.reindent, v)

\* CilkBook_token without "if skiptoken: continue"
CilkBook_token_noskip(s, opts, ttype, value) ==
    IF In(ttype, Comment_Invisible_End) THEN [s EXCEPT !.skiptoken = FALSE]
    ELSE IF In(ttype, Comment_Invisible_Begin) THEN [s EXCEPT !.skiptoken = TRUE]
    ELSE CilkBook_visible(s, opts, ttype, value)

\* CilkBook_token whose End marker asks for the baseline to be captured anew
CilkBook_token_recapture(s, opts, ttype, value) ==
    IF In(ttype, Comment_Invisible_End)
    THEN [s EXCEPT !.skiptoken = FALSE, !.find_next_indent = opts.reindent]
    ELSE IF In(ttype, Comment_Invisible_Begin) THEN [s EXCEPT !.skiptoken = TRUE]
    ELSE IF s.skiptoken THEN s
    ELSE CilkBook_visible(s, opts, ttype, value)

\* the body of "for ttype, value in tokensource" of
\* CilkBookFormatter.format_unencoded
CilkBook_token(s, opts, ttype, value) ==
    IF In(ttype, Comment_Invisible_End) THEN [s EXCEPT !.skiptoken = FALSE]
    ELSE IF In(ttype, Comment_Invisible_Begin) THEN [s EXCEPT !.skiptoken = TRUE]
    ELSE IF s.skiptoken THEN s
    ELSE CilkBook_visible(s, opts, ttype, value)

(***************************************************************************)
(* CHRtfFormatter (chrtfformatter.py).                                     *)
(***************************************************************************)
\* the colours of the style in the order the header loop meets them:
\* "for _, style in self.style: for color in style['color'],
\*  style['bgcolor'], style['border']"
RECURSIVE StyleColors(_)
StyleColors(types) ==
    IF types = <<>> THEN <<>>
    ELSE LET d == style_for_token(Head(types))
         IN  <<d.color, d.bgcolor, d.border>> \o StyleColors(Tail(types))

\* the colours of the colour table, in first-seen order: color_mapping[c] is
\* the position of c in this list
RECURSIVE FirstSeen_all(_, _)
FirstSeen_all(colors, seen) ==
    IF colors = <<>> THEN seen
    ELSE FirstSeen_all(Tail(colors),
                       IF Head(colors) # <<>> THEN Append(seen, Head(colors))
                       ELSE seen)

RECURSIVE FirstSeen(_, _)
FirstSeen(colors, seen) ==
    IF colors = <<>> THEN seen
    ELSE FirstSeen(Tail(colors),
                   IF Head(colors) # <<>> /\ Head(colors) \notin ToSet(seen)
                   THEN Append(seen, Head(colors))
                   ELSE seen)

ColorTable == FirstSeen(StyleColors(StyleTypes), <<>>)

color_mapping(color) == CHOOSE i \in 1..Len(ColorTable) : ColorTable[i] = color

\* int(h, 16) for two hexadecimal digits
HexDigit(c) ==
    CASE c = "0" -> 0 [] c = "1" -> 1 [] c = "2" -> 2 [] c = "3" -> 3
      [] c = "4" -> 4 [] c = "5" -> 5 [] c = "6" -> 6 [] c = "7" -> 7
      [] c = "8" -> 8 [] c = "9" -> 9
      [] c \in {"a", "A"} -> 10 [] c \in {"b", "B"} -> 11
      [] c \in {"c", "C"} -> 12 [] c \in {"d", "D"} -> 13
      [] c \in {"e", "E"} -> 14 [] c \in {"f", "F"} -> 15

Hex2(c1, c2) == 16 * HexDigit(c1) + HexDigit(c2)

\* '%d' % n for n >= 0
RECURSIVE Decimal(_)
Decimal(n) ==
    LET d == <<"0", "1", "2", "3", "4", "5", "6", "7", "8", "9">>[(n % 10) + 1]
    IN  IF n < 10 THEN <<d>> ELSE Decimal(n \div 10) \o <<d>>

\* r'\red%d\green%d\blue%d;'
ColorEntry(color) ==
    <<"\\red">> \o Decimal(Hex2(color[1], color[2]))
    \o <<"\\green">> \o Decimal(Hex2(color[3], color[4]))
    \o <<"\\blue">> \o Decimal(Hex2(color[5], color[6])) \o <<";">>

RECURSIVE ColorEntries(_)
ColorEntries(colors) ==
    IF colors = <<>> THEN <<>>
    ELSE ColorEntry(Head(colors)) \o ColorEntries(Tail(colors))

\* the header of the RTF document, with the option fontface empty
CHRtf_header ==
    <<"{", "\\rtf1\\ansi\\deff0", "{", "\\fonttbl", "{",
      "\\f0\\fmodern\\fprq1\\fcharset0", ";", "}", "}", "{", "\\colortbl", ";">>
    \o ColorEntries(ColorTable) \o <<"}", "\\f0">>

\* "if reindent: ..." of CHRtfFormatter.format_unencoded: as in the LaTeX
\* formatter, but the newlines at the start of value are written escaped
CHRtf_reindent(s, ttype, value) ==
    LET n1 == PrefixRun(value, HSpace)
        captured == s.find_next_indent /\ ttype = Text /\ n1 > 0
        initialindent1 == IF captured THEN SubSeq(value, 1, n1) ELSE s.initialindent
        value1 == IF captured THEN Drop(value, n1) ELSE value
        newline1 == IF s.find_next_indent THEN FALSE ELSE s.newline
        nn == PrefixRun(value1, {NL})
        stripped == /\ nn = 0
                    /\ newline1
                    /\ ttype = Text
                    /\ IndentMatch(initialindent1, value1)
    IN  [state |-> [s EXCEPT !.initialindent = initialindent1,
                             !.find_next_indent = FALSE,
                             !.newline = nn > 0,
                             !.out = @ \o _escape_text(SubSeq(value1, 1, nn))],
         value |-> IF nn > 0 THEN Drop(value1, nn)
                   ELSE IF stripped THEN Drop(value1, Len(initialindent1))
                   ELSE value1]

\* "while not self.style.styles_token(ttype) and ttype.parent"
RECURSIVE StyledAncestor(_)
StyledAncestor(ttype) ==
    IF ~styles_token(ttype) /\ ttype # Token THEN StyledAncestor(Parent(ttype))
    ELSE ttype

\* ''.join(buf): the control words of a style
CHRtf_start(style) ==
    (IF style.bgcolor # <<>>
     THEN <<"\\cb">> \o Decimal(color_mapping(style.bgcolor)) ELSE <<>>)
    \o (IF style.color # <<>>
        THEN <<"\\cf">> \o Decimal(color_mapping(style.color)) ELSE <<>>)
    \o (IF style.bold THEN <<"\\b">> ELSE <<>>)
    \o (IF style.italic THEN <<"\\i">> ELSE <<>>)
    \o (IF style.underline THEN <<"\\ul">> ELSE <<>>)
    \o (IF style.border # <<>>
        THEN <<"\\chbrdr\\chcfpat">> \o Decimal(color_mapping(style.border))
        ELSE <<>>)

\* the lines of a token: every line but the last
RECURSIVE CHRtf_lines(_, _, _, _)
CHRtf_lines(lines, reindent, newline, initialindent) ==
    IF lines = <<>> THEN <<>>
    ELSE (IF Head(lines) # <<>>
          THEN _escape_text(Unindent(reindent, newline, initialindent, Head(lines)))
          ELSE <<>>)
         \o _escape_text(<<NL>>)
         \o CHRtf_lines(Tail(lines), reindent, TRUE, initialindent)

\* CHRtf_write without the closing brace of the group
CHRtf_write_open(s, reindent, ttype, value) ==
    LET start == CHRtf_start(style_for_token(StyledAncestor(ttype)))
    IN  [s EXCEPT
           !.out = @ \o (IF start # <<>> THEN <<"{">> \o start \o <<" ">> ELSE <<>>)
                     \o _escape_text(value),
           !.newline = IF Count(value, NL) > 0 THEN TRUE ELSE @]

\* from "while not self.style.styles_token(ttype)" to the closing brace
CHRtf_write(s, reindent, ttype, value) ==
    LET start == CHRtf_start(style_for_token(StyledAncestor(ttype)))
        spl == Split(value, NL)
        last == spl[Len(spl)]
        newline1 == IF Len(spl) > 1 THEN TRUE ELSE s.newline
    IN  [s EXCEPT
           !.out = @ \o (IF start # <<>> THEN <<"{">> \o start \o <<" ">> ELSE <<>>)
                     \o CHRtf_lines(SubSeq(spl, 1, Len(spl) - 1), reindent,
                                    s.newline, s.initialindent)
                     \o (IF last # <<>>
                         THEN _escape_text(Unindent(reindent, newline1,
                                                    s.initialindent, last))
                         ELSE <<>>)
                     \o (IF start # <<>> THEN <<"}">> ELSE <<>>),
           !.newline = IF last # <<>> THEN FALSE ELSE newline1]

\* ''.join(re.findall(r'\n', value))
OnlyNewlines(value) == [i \in 1..Count(value, NL) |-> NL]

\* CHRtf_visible that writes a PureTeX comment as any other comment
CHRtf_visible_kept(s, opts, ttype, value) ==
    LET r == IF opts.reindent THEN CHRtf_reindent(s, ttype, value)
             ELSE [state |-> s, value |-> value]
    IN  IF In(ttype, Comment_Invisible) THEN r.state
        ELSE CHRtf_write(r.state, opts.reindent, ttype, r.value)

\* the body of the token loop for a token that is no region marker and is
\* not skipped: from "if reindent:" to the end of the body
CHRtf_visible(s, opts, ttype, value) ==
    LET r == IF opts.reindent THEN CHRtf_reindent(s, ttype, value)
             ELSE [state |-> s, value |-> value]
    IN  IF In(ttype, Comment_Invisible) THEN r.state
        ELSE IF In(ttype, Comment_PureTeX)
        THEN CHRtf_write([r.state EXCEPT !.newline = TRUE], opts.reindent,
                         ttype, OnlyNewlines(r.value))
        ELSE CHRtf_write(r.state, opts.reindent, ttype, r.value)

\* CHRtf_token whose Begin marker flips the flag instead of setting it
CHRtf_token_toggle(s, opts, ttype, value) ==
    IF In(ttype, Comment_Invisible_End) THEN [s EXCEPT !.skiptoken = FALSE]
    ELSE IF In(ttype, Comment_Invisible_Begin) THEN [s EXCEPT !.skiptoken = ~@]
    ELSE IF s.skiptoken THEN s
    ELSE CHRtf_visible(s, opts, ttype, value)

\* the body of "for ttype, value in tokensource" of
\* CHRtfFormatter.format_unencoded
CHRtf_token(s, opts, ttype, value) ==
    IF In(ttype, Comment_Invisible_End) THEN [s EXCEPT !.skiptoken = FALSE]
    ELSE IF In(ttype, Comment_Invisible_Begin) THEN [s EXCEPT !.skiptoken = TRUE]
    ELSE IF s.skiptoken THEN s
    ELSE CHRtf_visible(s, opts, ttype, value)

(***************************************************************************)
(* One run of format_unencoded, of either formatter.                       *)
(***************************************************************************)
VARIABLES
    formatter,         \* "cilkbook" or "chrtf"
    options,           \* the options of the formatter
    pc,                \* "start", "loop" (between two tokens) or "done"
    skiptoken,
    initialindent,
    find_next_indent,
    newline,
    wrotelines,
    outfile,           \* the text written so far
    consumed           \* the tokens taken from tokensource so far

fmtvars == <<formatter, options, pc, skiptoken, initialindent, find_next_indent,
             newline, wrotelines, outfile, consumed>>

(***************************************************************************)
(* The escaping functions applied to one text on its own.                  *)
(***************************************************************************)
VARIABLES
    esc_text,  \* the text to escape
    tex_out,   \* escape_tex(esc_text, commandprefix), once computed
    rtf_out,   \* self._escape(esc_text), once computed
    escaped    \* which of the two have been computed

escvars == <<esc_text, tex_out, rtf_out, escaped>>

VARIABLES
    src_text,  \* the text get_tokens_unprocessed scans
    src_pos,   \* pos, counted from 1: the next character to match
    emitted,   \* the tokens the last rule match yielded
    statestack \* the stack of lexer states, the current state last

scanvars == <<src_text, src_pos, emitted, statestack>>

VARIABLES
    init_options  \* the keyword arguments **options of Formatter.__init__

cfgvars == <<init_options>>

VARIABLES
    resolution  \* a walk up the token categories: which loop, the category it
                \* started from, ttype, the iterations done, returned, raised

resvars == <<resolution>>

VARIABLES
    full,        \* the option full of the LaTeX formatter
    realoutfile  \* with full set: the writes to the stream format_unencoded was
                 \* given, outfile being the StringIO buffer

docvars == <<full, realoutfile>>

\* the variables outside the formatters and the classifier
auxvars == <<escvars, scanvars, cfgvars, resvars, docvars>>

vars == <<lexvars, fmtvars, auxvars>>

\* no text is escaped on its own
EscIdle ==
    /\ esc_text = <<>>
    /\ tex_out = <<>>
    /\ rtf_out = <<>>
    /\ escaped = {}

\* no text is scanned
ScanIdle ==
    /\ src_text = <<>>
    /\ src_pos = 1
    /\ emitted = <<>>
    /\ statestack = <<"root">>

\* no option is given
NoOptions == [n \in {} |-> ""]

CfgIdle == init_options = NoOptions

\* no category is resolved on its own
ResIdle ==
    resolution = [walk |-> "none", start |-> <<>>, ttype |-> <<>>, steps |-> 0,
                  done |-> TRUE, raised |-> FALSE]

\* fragments are written, straight to outfile
DocIdle == full = FALSE /\ realoutfile = <<>>

AuxIdle == EscIdle /\ ScanIdle /\ CfgIdle /\ ResIdle /\ DocIdle


\* the options of the model; the others keep their defaults (linenos off,
\* verboptions and saveverbatimname empty, verbenvironment 'Verbatim',
\* commandprefix 'PY', full off)
FmtOptions ==
    [hidebydefault : BOOLEAN, reindent : BOOLEAN, texcomments : BOOLEAN,
     mathescape : BOOLEAN, inline : BOOLEAN]

\* the tokens of the token streams: unstyled text and invisible comments
\* with every value, the styled types with the values that have a special
\* character or several lines, and the two region markers
FmtValues == {<<>>, <<"a">>, <<NL>>, <<"{", NL>>, <<" ", "a", NL, " ", "b">>}
FmtTokens ==
    [ttype : {Text, Comment_Invisible}, value : FmtValues]
    \cup [ttype : {Keyword, Comment_Single, Comment_PureTeX},
          value : {<<"a">>, <<"{", NL>>, <<" ", "a", NL, " ", "b">>}]
    \cup [ttype : {Comment_Invisible_Begin, Comment_Invisible_End},
          value : {<<"/", "/", "/", NL>>}]

\* the local variables as one record, and back
Locals ==
    [skiptoken |-> skiptoken, initialindent |-> initialindent,
     find_next_indent |-> find_next_indent, newline |-> newline,
     wrotelines |-> wrotelines, out |-> outfile]

SetLocals(s) ==
    /\ skiptoken' = s.skiptoken
    /\ initialindent' = s.initialindent
    /\ find_next_indent' = s.find_next_indent
    /\ newline' = s.newline
    /\ wrotelines' = s.wrotelines
    /\ outfile' = s.out

\* the formatter is constructed, nothing has run
FmtInit ==
    /\ formatter \in {"cilkbook", "chrtf"}
    /\ options \in FmtOptions
    /\ formatter = "chrtf" =>
           ~options.texcomments /\ ~options.mathescape /\ ~options.inline
    /\ pc = "start"
    /\ skiptoken = FALSE
    /\ initialindent = <<>>
    /\ find_next_indent = FALSE
    /\ newline = FALSE
    /\ wrotelines = FALSE
    /\ outfile = <<>>
    /\ consumed = <<>>

\* no formatter runs
FmtIdle ==
    /\ formatter = "none"
    /\ options = [hidebydefault |-> FALSE, reindent |-> FALSE, texcomments |-> FALSE,
                  mathescape |-> FALSE, inline |-> FALSE]
    /\ pc = "done"
    /\ skiptoken = FALSE
    /\ initialindent = <<>>
    /\ find_next_indent = FALSE
    /\ newline = FALSE
    /\ wrotelines = FALSE
    /\ outfile = <<>>
    /\ consumed = <<>>

\* the \begin line of the verbatim environment
CilkBook_header(opts) ==
    IF opts.inline THEN <<>>
    ELSE <<"\\begin{", "Verbatim", "}[commandchars=\\\\\\{\\}">>
         \o (IF opts.mathescape \/ opts.texcomments
             THEN <<",codes={catcodes of $ ^ _}">>
             ELSE <<>>)
         \o <<"]", NL>>

\* the \end line alone
CilkBook_footer_bare(opts, wrote) ==
    IF opts.inline THEN <<>> ELSE <<"\\end{", "Verbatim", "}", NL>>

\* the \end line, after a newline if nothing was written
CilkBook_footer(opts, wrote) ==
    IF opts.inline THEN <<>>
    ELSE (IF ~wrote THEN <<NL>> ELSE <<>>) \o <<"\\end{", "Verbatim", "}", NL>>

\* string.lower() for the option values of the model
Lower(string) == IF string = "Off" THEN "off" ELSE string

\* pygments.util.get_bool_opt: options.get(optname, default) read as a
\* boolean; ok is FALSE where OptionError is raised
get_bool_opt(opts, optname, default) ==
    IF optname \notin DOMAIN opts THEN [ok |-> TRUE, value |-> default]
    ELSE IF Lower(opts[optname]) \in {"1", "yes", "true", "on"}
    THEN [ok |-> TRUE, value |-> TRUE]
    ELSE IF Lower(opts[optname]) \in {"0", "no", "false", "off"}
    THEN [ok |-> TRUE, value |-> FALSE]
    ELSE [ok |-> FALSE, value |-> default]

\* the option values of the model that int() accepts
IntTexts == {"1", "-3"}

\* pygments.util.get_int_opt: int(options.get(optname, default)); ok is
\* FALSE where OptionError is raised
get_int_opt(opts, optname, default) ==
    IF optname \notin DOMAIN opts THEN [ok |-> TRUE, value |-> default]
    ELSE IF opts[optname] \in IntTexts
    THEN [ok |-> TRUE, value |-> IF opts[optname] = "1" THEN 1 ELSE -3]
    ELSE [ok |-> FALSE, value |-> default]

\* the options CilkBookFormatter.__init__ reads with get_bool_opt and with
\* get_int_opt, and those CHRtfFormatter.__init__ reads
CilkBookBoolOptions == {"linenos", "nobackground", "texcomments", "mathescape",
                        "inline", "hidebydefault", "reindent"}
CilkBookIntOptions == {"linenostart", "linenostep"}
CHRtfBoolOptions == {"hidebydefault", "reindent"}

\* the attributes the token loop reads, after every option was read
ParsedOptions(opts, bools) ==
    [n \in {"hidebydefault", "reindent", "texcomments", "mathescape", "inline"} |->
        IF n \in bools THEN get_bool_opt(opts, n, FALSE).value ELSE FALSE]

\* CilkBookFormatter.__init__ that reads no option: a value that is not a
\* boolean counts as False when the token loop reads it
CilkBook_init_lazy ==
    /\ formatter = "cilkbook"
    /\ pc = "new"
    /\ pc' = "start"
    /\ options' = ParsedOptions(init_options, CilkBookBoolOptions)
    /\ UNCHANGED <<formatter, skiptoken, initialindent, find_next_indent, newline,
                   wrotelines, outfile, consumed>>

\* CilkBookFormatter.__init__: the first option that is not valid raises
\* OptionError, and no formatter exists
CilkBook_init ==
    /\ formatter = "cilkbook"
    /\ pc = "new"
    /\ pc' = IF /\ \A n \in CilkBookBoolOptions : get_bool_opt(init_options, n, FALSE).ok
                /\ \A n \in CilkBookIntOptions : get_int_opt(init_options, n, 1).ok
             THEN "start" ELSE "error"
    /\ options' = IF pc' = "start"
                  THEN ParsedOptions(init_options, CilkBookBoolOptions)
                  ELSE options
    /\ UNCHANGED <<formatter, skiptoken, initialindent, find_next_indent, newline,
                   wrotelines, outfile, consumed>>

\* CHRtfFormatter.__init__
CHRtf_init ==
    /\ formatter = "chrtf"
    /\ pc = "new"
    /\ pc' = IF \A n \in CHRtfBoolOptions : get_bool_opt(init_options, n, FALSE).ok
             THEN "start" ELSE "error"
    /\ options' = IF pc' = "start"
                  THEN ParsedOptions(init_options, CHRtfBoolOptions)
                  ELSE options
    /\ UNCHANGED <<formatter, skiptoken, initialindent, find_next_indent, newline,
                   wrotelines, outfile, consumed>>

\* CilkBookFormatter.format_unencoded up to the token loop
\* the loop entered with the output visible whatever hidebydefault says
CilkBook_begin_visible ==
    /\ formatter = "cilkbook"
    /\ pc = "start"
    /\ pc' = "loop"
    /\ outfile' = outfile \o CilkBook_header(options)
    /\ skiptoken' = FALSE
    /\ initialindent' = <<>>
    /\ find_next_indent' = options.reindent
    /\ newline' = FALSE
    /\ wrotelines' = FALSE
    /\ UNCHANGED <<formatter, options, consumed>>

CilkBook_begin ==
    /\ formatter = "cilkbook"
    /\ pc = "start"
    /\ pc' = "loop"
    /\ outfile' = outfile \o CilkBook_header(options)
    /\ skiptoken' = options.hidebydefault
    /\ initialindent' = <<>>
    /\ find_next_indent' = options.reindent
    /\ newline' = FALSE
    /\ wrotelines' = FALSE
    /\ UNCHANGED <<formatter, options, consumed>>

\* one iteration of the token loop
CilkBook_next(tok) ==
    /\ formatter = "cilkbook"
    /\ pc = "loop"
    /\ consumed' = Append(consumed, tok)
    /\ SetLocals(CilkBook_token(Locals, options, tok.ttype, tok.value))
    /\ UNCHANGED <<formatter, options, pc>>

\* tokensource is exhausted
CilkBook_end ==
    /\ formatter = "cilkbook"
    /\ pc = "loop"
    /\ pc' = "done"
    /\ outfile' = outfile \o CilkBook_footer(options, wrotelines)
    /\ UNCHANGED <<formatter, options, skiptoken, initialindent, find_next_indent,
                   newline, wrotelines, consumed>>

\* CHRtfFormatter.format_unencoded up to the token loop
CHRtf_begin ==
    /\ formatter = "chrtf"
    /\ pc = "start"
    /\ pc' = "loop"
    /\ outfile' = outfile \o CHRtf_header
    /\ skiptoken' = options.hidebydefault
    /\ initialindent' = <<>>
    /\ find_next_indent' = options.reindent
    /\ newline' = FALSE
    /\ UNCHANGED <<formatter, options, wrotelines, consumed>>

CHRtf_next(tok) ==
    /\ formatter = "chrtf"
    /\ pc = "loop"
    /\ consumed' = Append(consumed, tok)
    /\ SetLocals(CHRtf_token(Locals, options, tok.ttype, tok.value))
    /\ UNCHANGED <<formatter, options, pc>>

CHRtf_end ==
    /\ formatter = "chrtf"
    /\ pc = "loop"
    /\ pc' = "done"
    /\ outfile' = outfile \o <<"}">>
    /\ UNCHANGED <<formatter, options, skiptoken, initialindent, find_next_indent,
                   newline, wrotelines, consumed>>

(***************************************************************************)
(* format_unencoded as a function of the formatter, its options and the    *)
(* token stream: the text written to outfile.                              *)
(***************************************************************************)
\* the local variables before the token loop, with the header written
LoopStart(f, opts) ==
    [skiptoken |-> opts.hidebydefault, initialindent |-> <<>>,
     find_next_indent |-> opts.reindent, newline |-> FALSE,
     wrotelines |-> FALSE,
     out |-> IF f = "cilkbook" THEN CilkBook_header(opts) ELSE CHRtf_header]

\* "for ttype, value in tokensource: ..."
RECURSIVE TokenLoop(_, _, _, _)
TokenLoop(f, opts, s, toks) ==
    IF toks = <<>> THEN s
    ELSE TokenLoop(f, opts,
                   IF f = "cilkbook"
                   THEN CilkBook_token(s, opts, Head(toks).ttype, Head(toks).value)
                   ELSE CHRtf_token(s, opts, Head(toks).ttype, Head(toks).value),
                   Tail(toks))

format_unencoded(f, opts, toks) ==
    LET s == TokenLoop(f, opts, LoopStart(f, opts), toks)
    IN  s.out \o (IF f = "cilkbook" THEN CilkBook_footer(opts, s.wrotelines)
                  ELSE <<"}">>)

(***************************************************************************)
(* The rules of CilkLexer.tokens['whitespace'] as matchers (cilklexer.py). *)
(*                                                                         *)
(* Every lexical state that takes comments starts with                     *)
(* include('whitespace'), so at each position these rules are tried first, *)
(* in the order of the list; where none matches, the rules of 'statements' *)
(* take an identifier or an operator.  A matcher takes rest, the text from *)
(* the position on, and gives the length of the match (0 for no match) and *)
(* the tokens it yields.  After a '#' at the start of a line the lexer is  *)
(* in the state 'macro'; the rule at line 183 stands behind the inherited  *)
(* rules, which take every blank and every '#' at the start of a line      *)
(* before it is tried.                                                     *)
(***************************************************************************)
Min(S) == CHOOSE m \in S : \A n \in S : m <= n

NoMatch == [len |-> 0, tokens |-> <<>>]

\* bygroups: the groups that are not empty, each with its token type
Groups(tokens) == SelectSeq(tokens, LAMBDA t : t.value # <<>>)

\* (\\\n)?
Continuation(rest) ==
    IF Len(rest) >= 2 /\ rest[1] = BS /\ rest[2] = NL THEN 2 ELSE 0

\* /(\\\n)?/(\\\n)?/
Slashes(rest) ==
    LET c1 == Continuation(Drop(rest, 1))
        c2 == Continuation(Drop(rest, 2 + c1))
    IN  IF /\ Len(rest) >= 3 + c1 + c2
           /\ rest[1] = "/" /\ rest[2 + c1] = "/" /\ rest[3 + c1 + c2] = "/"
        THEN 3 + c1 + c2
        ELSE 0

\* [ \t\f\v]*/(\\\n)?/(\\\n)?/
IndentedSlashes(rest) ==
    LET h == PrefixRun(rest, HSpace)
    IN  IF Slashes(Drop(rest, h)) > 0 THEN h + Slashes(Drop(rest, h)) ELSE 0

\* (\s*word)
SpacedWord(rest, word) ==
    LET w == PrefixRun(rest, WhiteSpace)
    IN  IF StartsWith(Drop(rest, w), word) THEN w + Len(word) ELSE 0

\* (\n|(.|\n)*?[^\\]\n)
ToLineEnd(rest) ==
    IF rest # <<>> /\ rest[1] = NL THEN 1
    ELSE LET js == {j \in 1..(Len(rest) - 1) : rest[j] # BS /\ rest[j + 1] = NL}
         IN  IF js = {} THEN 0 ELSE Min(js) + 1

\* (.*?[^\\]\n): the dot takes no newline
DotsToLineEnd(rest) ==
    LET js == {j \in 1..(Len(rest) - 1) :
                  /\ rest[j] # BS /\ rest[j + 1] = NL
                  /\ \A i \in 1..(j - 1) : rest[i] # NL}
    IN  IF js = {} THEN 0 ELSE Min(js) + 1

\* [*](\\\n)?[*](\\\n)?[*](\\\n)?/
Closer(rest) ==
    LET c1 == Continuation(Drop(rest, 1))
        c2 == Continuation(Drop(rest, 2 + c1))
        c3 == Continuation(Drop(rest, 3 + c1 + c2))
        n == 4 + c1 + c2 + c3
    IN  IF /\ Len(rest) >= n
           /\ rest[1] = "*" /\ rest[2 + c1] = "*" /\ rest[3 + c1 + c2] = "*"
           /\ rest[n] = "/"
        THEN n
        ELSE 0

TypesWord == <<"T", "y", "p", "e", "s", ":">>
KeywordsWord == <<"K", "e", "y", "w", "o", "r", "d", "s", ":">>

\* [ \t\f\v]*/(\\\n)?/(\\\n)?/(\s*word), after the slashes of length s
SlashesWordAt(rest, word, s) ==
    IF s > 0 /\ SpacedWord(Drop(rest, s), word) > 0
    THEN s + SpacedWord(Drop(rest, s), word)
    ELSE 0

SlashesWord(rest, word) == SlashesWordAt(rest, word, IndentedSlashes(rest))

\* one Comment.Invisible token of the first n characters
InvisibleToken(rest, n) == <<[ttype |-> Comment_Invisible, value |-> SubSeq(rest, 1, n)]>>

\* (.*?[^\\]\n) after group(1) of length n: the callbacks yield group(0),
\* which is group(1) and group(5), and read the list from group(5)
LineListAt(rest, n) ==
    LET e == DotsToLineEnd(Drop(rest, n))
    IN  IF n > 0 /\ e > 0
        THEN [len |-> n + e, tokens |-> InvisibleToken(rest, n + e),
              list |-> SubSeq(rest, n + 1, n + e)]
        ELSE NoMatch

\* lines 149 and 154: ([ \t\f\v]*/(\\\n)?/(\\\n)?/(\s*word))(.*?[^\\]\n)
LineListComment(rest, word) == LineListAt(rest, SlashesWord(rest, word))

\* (.*?)([*](\\\n)?[*](\\\n)?[*](\\\n)?/) after group(1) of length n
BlockListAt(rest, n) ==
    LET ks == {k \in 0..(Len(rest) - n) :
                  /\ Closer(Drop(rest, n + k)) > 0
                  /\ \A i \in 1..k : rest[n + i] # NL}
    IN  IF n > 0 /\ ks # {}
        THEN [len |-> n + Min(ks) + Closer(Drop(rest, n + Min(ks))),
              tokens |-> InvisibleToken(rest, n + Min(ks)
                                              + Closer(Drop(rest, n + Min(ks)))),
              list |-> SubSeq(rest, n + 1, n + Min(ks))]
        ELSE NoMatch

\* ([ \t\f\v]*/([*][*][*])((\s*)Types:)), after h blanks
BlockHeadAt(rest, h) ==
    IF /\ StartsWith(Drop(rest, h), <<"/", "*", "*", "*">>)
       /\ SpacedWord(Drop(rest, h + 4), TypesWord) > 0
    THEN h + 4 + SpacedWord(Drop(rest, h + 4), TypesWord)
    ELSE 0

\* line 151: ([ \t\f\v]*/([*][*][*])((\s*)Types:))(.*?)([*](\\\n)?[*](\\\n)?[*](\\\n)?/)
BlockListComment(rest) ==
    BlockListAt(rest, BlockHeadAt(rest, PrefixRun(rest, HSpace)))

\* (\n|(.|\n)*?[^\\]\n) after the first n characters of a marker
MarkerAt(rest, ttype, n) ==
    LET e == ToLineEnd(Drop(rest, n))
    IN  IF n > 0 /\ e > 0
        THEN [len |-> n + e,
              tokens |-> <<[ttype |-> ttype, value |-> SubSeq(rest, 1, n + e)]>>]
        ELSE NoMatch

\* lines 158 to 163: [ \t\f\v]*/(\\\n)?/(\\\n)?/(\s*word)(\n|(.|\n)*?[^\\]\n)
MarkerRule(rest, word, ttype) == MarkerAt(rest, ttype, SlashesWord(rest, word))

\* lines 171-172: [ \t\f\v]*(/(\\\n)?/(\\\n)?/)(.*?[^\\]\n); the blanks
\* before the slashes stand in no group and are not yielded
PureTeXRule(rest) ==
    LET h == PrefixRun(rest, HSpace)
        s == Slashes(Drop(rest, h))
        e == DotsToLineEnd(Drop(rest, h + s))
    IN  IF s > 0 /\ e > 0
        THEN [len |-> h + s + e,
              tokens |-> <<[ttype |-> Comment_Invisible,
                            value |-> SubSeq(rest, h + 1, h + s)],
                           [ttype |-> Comment_PureTeX,
                            value |-> SubSeq(rest, h + s + 1, h + s + e)]>>]
        ELSE NoMatch

\* the ends of the units of _ws (line 47) that start behind the first k
\* characters: \s, //.*?\n and /[*].*?[*]/, where the dot takes no newline
WsUnitEnds(rest, k) ==
    (IF Len(rest) > k /\ rest[k + 1] \in WhiteSpace THEN {k + 1} ELSE {})
    \cup {j \in (k + 3)..Len(rest) :
             /\ rest[k + 1] = "/" /\ rest[k + 2] = "/"
             /\ rest[j] = NL
             /\ \A i \in (k + 3)..(j - 1) : rest[i] # NL}
    \cup {j \in (k + 4)..Len(rest) :
             /\ rest[k + 1] = "/" /\ rest[k + 2] = "*"
             /\ rest[j - 1] = "*" /\ rest[j] = "/"
             /\ \A i \in (k + 3)..(j - 2) : rest[i] # NL}

\* the lengths of the prefixes of rest that _ws matches, given the lengths
\* reach found so far and the length k that is looked at next
RECURSIVE WsEnds(_, _, _)
WsEnds(rest, k, reach) ==
    IF k >= Len(rest) THEN reach \ {0}
    ELSE WsEnds(rest, k + 1,
                IF k \in reach THEN reach \cup WsUnitEnds(rest, k) ELSE reach)

DirectiveWord == <<"#", "l", "i", "n", "e">>

Digits10 == {"0", "1", "2", "3", "4", "5", "6", "7", "8", "9"}

\* (\s+\d\n): the length of the match at the start of rest, 0 for none
SpacedDigit(rest) ==
    LET w == PrefixRun(rest, WhiteSpace)
    IN  IF /\ w > 0 /\ Len(rest) >= w + 2
           /\ rest[w + 1] \in Digits10 /\ rest[w + 2] = NL
        THEN w + 2
        ELSE 0

\* the prefixes that _ws matches and that #line, blanks, one digit and a
\* newline follow
DirectiveAt(rest, ends) ==
    {k \in ends : /\ StartsWith(Drop(rest, k), DirectiveWord)
                  /\ SpacedDigit(Drop(rest, k + 5)) > 0}

\* the match of line 145 whose group(1) is the first n characters
DirectiveMatch(rest, n) ==
    [len |-> n + SpacedDigit(Drop(rest, n)),
     tokens |-> <<[ttype |-> Comment_Invisible_Begin, value |-> SubSeq(rest, 1, n)],
                  [ttype |-> Comment_Invisible_End,
                   value |-> SubSeq(rest, n + 1, n + SpacedDigit(Drop(rest, n)))]>>]

\* lines 145-146: ^((?:\s|//.*?\n|/[*].*?[*]/)+#line)(\s+\d\n)
LineDirectiveAt(rest, ks) ==
    IF ks = {} THEN NoMatch ELSE DirectiveMatch(rest, Min(ks) + 5)

LineDirective(rest, at_line_start) ==
    IF at_line_start
    THEN LineDirectiveAt(rest, DirectiveAt(rest, WsEnds(rest, 0, {0})))
    ELSE NoMatch

\* line 181, inherit: ^# of the 'whitespace' state of the C family lexer,
\* yielded as Comment.Preproc; the lexer enters the state 'macro'
PreprocRule(rest, at_line_start) ==
    IF at_line_start /\ rest[1] = "#"
    THEN [len |-> 1, tokens |-> <<[ttype |-> Comment_Preproc, value |-> <<"#">>]>>,
          new_state |-> <<"macro">>]
    ELSE NoMatch

\* lines 216-217: (///)(.*?\n)
MacroTeXRule(rest) ==
    LET n == PrefixRun(rest, {c \in ToSet(rest) : c # NL})
    IN  IF StartsWith(rest, <<"/", "/", "/">>) /\ n < Len(rest)
        THEN [len |-> n + 1,
              tokens |-> <<[ttype |-> Comment_Invisible, value |-> <<"/", "/", "/">>],
                           [ttype |-> Comment_PureTeX,
                            value |-> SubSeq(rest, 4, n + 1)]>>,
              new_state |-> <<"#pop">>]
        ELSE NoMatch

\* one Comment.Preproc token of the first n characters
PreprocToken(rest, n) ==
    [len |-> n, tokens |-> <<[ttype |-> Comment_Preproc, value |-> SubSeq(rest, 1, n)]>>]

\* the letters of the texts of the model, for [a-zA-Z_]
Letters == {"a", "x", "T", "y", "p", "e", "s", "K", "w", "o", "r", "d", "_"}

\* lines 174-175: (\\[a-zA-Z_][^\n]*?)(\n)
TexLineRule(rest) ==
    LET n == PrefixRun(rest, {c \in ToSet(rest) : c # NL})
    IN  IF /\ Len(rest) >= 2 /\ rest[1] = BS /\ rest[2] \in Letters
           /\ n < Len(rest)
        THEN [len |-> n + 1,
              tokens |-> <<[ttype |-> Comment_PureTex, value |-> SubSeq(rest, 1, n)],
                           [ttype |-> Text, value |-> <<NL>>]>>]
        ELSE NoMatch

\* lines 178-179: (//)([^\n]*?)(///)([^\n]*?)(\n)
InCommentRule(rest) ==
    LET n == PrefixRun(rest, {c \in ToSet(rest) : c # NL})
        ks == {k \in 3..(n - 2) : SubSeq(rest, k, k + 2) = <<"/", "/", "/">>}
        k == Min(ks)
    IN  IF /\ StartsWith(rest, <<"/", "/">>)
           /\ n < Len(rest)
           /\ ks # {}
        THEN [len |-> n + 1,
              tokens |-> Groups(<<[ttype |-> Comment_Single, value |-> <<"/", "/">>],
                                  [ttype |-> Comment_Single,
                                   value |-> SubSeq(rest, 3, k - 1)],
                                  [ttype |-> Comment_Invisible,
                                   value |-> <<"/", "/", "/">>],
                                  [ttype |-> Comment_PureTeX,
                                   value |-> SubSeq(rest, k + 3, n)],
                                  [ttype |-> Comment_Single, value |-> <<NL>>]>>)]
        ELSE NoMatch

\* line 181, inherit: the rules of the 'whitespace' state of the C family
\* lexer of Pygments that need no '#': the label, \n, \s+, \\\n, the line
\* comment //(\n|(.|\n)*?[^\\]\n) and the block comment
\* /(\\\n)?[*](.|\n)*?[*](\\\n)?/
InheritedRules(rest, at_line_start) ==
    LET w == PrefixRun(rest, WhiteSpace)
        afterw == Drop(rest, w)
        id == IF afterw # <<>> /\ afterw[1] \in Letters
              THEN PrefixRun(afterw, Letters) ELSE 0
        label == /\ at_line_start
                 /\ id > 0
                 /\ Len(afterw) > id /\ afterw[id + 1] = ":"
                 /\ ~(Len(afterw) > id + 1 /\ afterw[id + 2] = ":")
        e == ToLineEnd(Drop(rest, 2))
        c == Continuation(Drop(rest, 1))
        body == Drop(rest, 2 + c)
        ends == {k \in 0..(Len(body) - 2) :
                    /\ body[k + 1] = "*"
                    /\ Len(body) >= k + 2 + Continuation(Drop(body, k + 1))
                    /\ body[k + 2 + Continuation(Drop(body, k + 1))] = "/"}
        close == Min(ends) + 2 + Continuation(Drop(body, Min(ends) + 1))
    IN  IF label
        THEN [len |-> w + id + 1,
              tokens |-> Groups(<<[ttype |-> Text, value |-> SubSeq(rest, 1, w)],
                                  [ttype |-> Name_Label,
                                   value |-> SubSeq(rest, w + 1, w + id + 1)]>>)]
        ELSE IF w > 0
        THEN [len |-> IF rest[1] = NL THEN 1 ELSE w,
              tokens |-> <<[ttype |-> Text,
                            value |-> SubSeq(rest, 1, IF rest[1] = NL THEN 1 ELSE w)]>>]
        ELSE IF Continuation(rest) > 0
        THEN [len |-> 2, tokens |-> <<[ttype |-> Text, value |-> <<BS, NL>>]>>]
        ELSE IF StartsWith(rest, <<"/", "/">>) /\ e > 0
        THEN [len |-> 2 + e,
              tokens |-> <<[ttype |-> Comment_Single, value |-> SubSeq(rest, 1, 2 + e)]>>]
        ELSE IF /\ Len(rest) >= 2 + c /\ rest[1] = "/" /\ rest[2 + c] = "*"
                /\ ends # {}
        THEN [len |-> 2 + c + close,
              tokens |-> <<[ttype |-> Comment_Multiline,
                            value |-> SubSeq(rest, 1, 2 + c + close)]>>]
        ELSE NoMatch

\* the rules of 'statements' for the characters of the model (lines 776 to
\* 781): an identifier goes to checkcustom_callback, "*/" is an Error, one
\* of [~!%^&*+=|?:<>/-] is an Operator
StatementsRules(rest, types, keywords) ==
    LET id == PrefixRun(rest, Letters)
    IN  IF id > 0
        THEN [len |-> id,
              tokens |-> <<[ttype |-> checkcustom_callback(types, keywords,
                                                           SubSeq(rest, 1, id)),
                            value |-> SubSeq(rest, 1, id)]>>]
        ELSE IF StartsWith(rest, <<"*", "/">>)
        THEN [len |-> 2, tokens |-> <<[ttype |-> Error, value |-> <<"*", "/">>]>>]
        ELSE IF rest[1] \in {":", "<", ">", "/", "*", "="}
        THEN [len |-> 1, tokens |-> <<[ttype |-> Operator, value |-> <<rest[1]>>]>>]
        ELSE NoMatch

\* line 935: [;,] is yielded as Punctuation and leaves 'statement'
StatementEnd(rest) ==
    IF rest[1] \in {";", ","}
    THEN [len |-> 1, tokens |-> <<[ttype |-> Punctuation, value |-> <<rest[1]>>]>>,
          new_state |-> <<"#pop">>]
    ELSE NoMatch

\* no rule of the state matches: the lexer yields one character as an Error
ErrorToken(rest) ==
    [len |-> 1, tokens |-> <<[ttype |-> Error, value |-> <<rest[1]>>]>>]

\* a rule that matches the empty string, yields an empty Text token and
\* changes the state
EmptyRule(new_state) ==
    [len |-> 0, tokens |-> <<[ttype |-> Text, value |-> <<>>]>>, new_state |-> new_state]

\* the lookahead of lines 856-857 behind the identifier: one or more of
\* [*\s], an identifier, blanks or none, and one of [=;]
DeclAhead(ahead, gap) ==
    LET id == PrefixRun(Drop(ahead, gap), Letters)
        w == PrefixRun(Drop(ahead, gap + id), WhiteSpace)
    IN  /\ gap > 0 /\ id > 0
        /\ Len(ahead) > gap + id + w
        /\ ahead[gap + id + w + 1] \in {"=", ";"}

\* lines 856-858 of 'root': an identifier that another identifier and = or
\* ; follow is yielded as Keyword.Type, and the lexer enters 'variable'
DeclRule(rest, id) ==
    IF id > 0 /\ DeclAhead(Drop(rest, id),
                           PrefixRun(Drop(rest, id), WhiteSpace \cup {"*"}))
    THEN [len |-> id,
          tokens |-> <<[ttype |-> Keyword_Type, value |-> SubSeq(rest, 1, id)]>>,
          new_state |-> <<"variable">>]
    ELSE NoMatch

\* the rules of 'variable' for the characters of the model (lines 646-647
\* and 656-669): [*&] is an Operator, a comma is Punctuation, an identifier
\* goes to variable_callback
VariableRules(rest, id, types, keywords) ==
    IF id > 0
    THEN [len |-> id,
          tokens |-> <<[ttype |-> variable_callback(types, keywords,
                                                    SubSeq(rest, 1, id)),
                        value |-> SubSeq(rest, 1, id)]>>]
    ELSE IF rest[1] \in {"*", "&"}
    THEN [len |-> 1, tokens |-> <<[ttype |-> Operator, value |-> <<rest[1]>>]>>]
    ELSE IF rest[1] = ","
    THEN [len |-> 1, tokens |-> <<[ttype |-> Punctuation, value |-> <<rest[1]>>]>>]
    ELSE NoMatch

\* lines 674-676: (?=[;]) leaves 'variable'
VariableEnd(rest) ==
    IF rest[1] = ";" THEN EmptyRule(<<"#pop">>) ELSE NoMatch

\* a rule matches if it takes a character or changes the state
Matched(try) == try.len > 0 \/ "new_state" \in DOMAIN try

\* the match of the rule with the number first: the length of the match,
\* its tokens, for a Types: or Keywords: comment group(5), and the state
\* the rule enters or "#pop", "" for a rule that keeps the state
MatchOf(first, try) ==
    [rule |-> first, len |-> try.len, tokens |-> try.tokens,
     list |-> IF "list" \in DOMAIN try THEN try.list ELSE <<>>,
     new_state |-> IF "new_state" \in DOMAIN try THEN try.new_state ELSE <<>>]

\* the first of the tried rules that matches
FirstOf(tries, first) == MatchOf(first, tries[first])

FirstMatch(tries) == FirstOf(tries, Min({i \in 1..Len(tries) : Matched(tries[i])}))

\* line 222, inherit: the rules of the 'macro' state of the C family lexer
\* for a line without a comment: [^/\n]+, /, (?<=\\)\n and \n, each yielded
\* as Comment.Preproc; the last one leaves the state
MacroInherited(rest, n, after_backslash) ==
    IF n > 0 THEN PreprocToken(rest, n)
    ELSE IF rest[1] = NL /\ ~after_backslash
    THEN [len |-> 1, tokens |-> <<[ttype |-> Comment_Preproc, value |-> <<NL>>]>>,
          new_state |-> <<"#pop">>]
    ELSE PreprocToken(rest, 1)

\* the rules of 'macro' in the order they are tried; the words include and
\* define stand in no text of the model
MacroRules(rest, after_backslash) ==
    FirstMatch(<< MacroTeXRule(rest),
                  TexLineRule(rest),
                  MacroInherited(rest,
                                 PrefixRun(rest, {c \in ToSet(rest) : c \notin {"/", NL}}),
                                 after_backslash) >>)

\* the rules of 'whitespace' in the order they are tried on rest, the text
\* from pos on
WhitespaceRules(rest, at_line_start) ==
    << LineDirective(rest, at_line_start),
       LineListComment(rest, TypesWord),
       BlockListComment(rest),
       LineListComment(rest, KeywordsWord),
       MarkerRule(rest, <<"<", "<">>, Comment_Invisible_End),
       MarkerRule(rest, <<">", ">">>, Comment_Invisible_Begin),
       MarkerRule(rest, <<"[", "[">>, Comment_Emph_Begin),
       MarkerRule(rest, <<"]", "]">>, Comment_Emph_End),
       PureTeXRule(rest),
       TexLineRule(rest),
       InCommentRule(rest),
       PreprocRule(rest, at_line_start),
       InheritedRules(rest, at_line_start) >>

\* the rules of the state on top of the stack that the characters of the
\* model can meet, in the order they are tried: 'root' (lines 795-871),
\* 'statement' (931-936) and 'variable' (628-678)
RulesAt(rest, at_line_start, state, types, keywords) ==
    FirstMatch(WhitespaceRules(rest, at_line_start) \o
               (IF state = "root"
                THEN << DeclRule(rest, PrefixRun(rest, Letters)),
                        EmptyRule(<<"statement">>) >>
                ELSE IF state = "variable"
                THEN << VariableRules(rest, PrefixRun(rest, Letters), types, keywords),
                        VariableEnd(rest),
                        EmptyRule(<<"#pop", "statement">>) >>
                ELSE << StatementsRules(rest, types, keywords),
                        StatementEnd(rest),
                        ErrorToken(rest) >>))

\* the match at position p of text in the state on top of the stack; ^
\* matches at the start of a line; at the end of the text only a rule that
\* matches the empty string is left
MatchAt(text, p, state, types, keywords) ==
    IF p > Len(text)
    THEN FirstMatch(<< EmptyRule(IF state = "root" THEN <<"statement">>
                                 ELSE <<"#pop", "statement">>) >>)
    ELSE IF state = "macro"
    THEN MacroRules(Drop(text, p - 1), p > 1 /\ text[p - 1] = BS)
    ELSE RulesAt(Drop(text, p - 1), p = 1 \/ text[p - 1] = NL, state, types, keywords)

(***************************************************************************)
(* The specifications.                                                     *)
(***************************************************************************)
\* one formatter run over any token stream
FormatNext ==
    \/ CilkBook_begin /\ UNCHANGED <<lexvars, auxvars>>
    \/ /\ Len(consumed) < MaxTokens
       /\ \E tok \in FmtTokens : CilkBook_next(tok)
       /\ UNCHANGED <<lexvars, auxvars>>
    \/ CilkBook_end /\ UNCHANGED <<lexvars, auxvars>>
    \/ CHRtf_begin /\ UNCHANGED <<lexvars, auxvars>>
    \/ /\ Len(consumed) < MaxTokens
       /\ \E tok \in FmtTokens : CHRtf_next(tok)
       /\ UNCHANGED <<lexvars, auxvars>>
    \/ CHRtf_end /\ UNCHANGED <<lexvars, auxvars>>

FormatInit == FmtInit /\ LexInit /\ AuxIdle

SpecFormat == FormatInit /\ [][FormatNext]_vars

\* token streams of indented lines in visible and hidden regions, formatted
\* with reindent on: text and comment tokens that start a line with one or
\* two blanks or with none, and the two region markers
MaxPieces == 4

ReindentTokens ==
    [ttype : {Text}, value : {<<" ", "x", NL>>, <<" ", " ", "y">>, <<"x", NL>>}]
    \cup [ttype : {Comment_Single}, value : {<<" ", "y", NL>>, <<"x", NL, " ", "y">>}]
    \cup [ttype : {Comment_Invisible_Begin, Comment_Invisible_End},
          value : {<<"/", "/", "/", NL>>}]

ReindentInit ==
    /\ FmtInit
    /\ options.reindent
    /\ ~options.texcomments /\ ~options.mathescape /\ ~options.inline
    /\ LexInit
    /\ AuxIdle

ReindentNext ==
    \/ CilkBook_begin /\ UNCHANGED <<lexvars, auxvars>>
    \/ /\ Len(consumed) < MaxPieces
       /\ \E tok \in ReindentTokens : CilkBook_next(tok)
       /\ UNCHANGED <<lexvars, auxvars>>
    \/ CilkBook_end /\ UNCHANGED <<lexvars, auxvars>>
    \/ CHRtf_begin /\ UNCHANGED <<lexvars, auxvars>>
    \/ /\ Len(consumed) < MaxPieces
       /\ \E tok \in ReindentTokens : CHRtf_next(tok)
       /\ UNCHANGED <<lexvars, auxvars>>
    \/ CHRtf_end /\ UNCHANGED <<lexvars, auxvars>>

SpecReindent == ReindentInit /\ [][ReindentNext]_vars

\* texts of up to MaxEscLen characters: the backslash, the braces, two more
\* characters of the LaTeX table, and a letter of the LaTeX commands
MaxEscLen == 3

EscChars == {BS, "{", "}", "-", "$", "Z"}

EscTexts == UNION {[1..n -> EscChars] : n \in 0..MaxEscLen}

EscapeInit ==
    /\ esc_text \in EscTexts
    /\ tex_out = <<>>
    /\ rtf_out = <<>>
    /\ escaped = {}
    /\ ScanIdle
    /\ CfgIdle
    /\ ResIdle
    /\ DocIdle
    /\ FmtIdle
    /\ LexInit

\* value = escape_tex(value, self.commandprefix)
EscapeTex ==
    /\ "tex" \notin escaped
    /\ tex_out' = escape_tex(esc_text, commandprefix)
    /\ escaped' = escaped \cup {"tex"}
    /\ UNCHANGED <<esc_text, rtf_out>>

\* self._escape(text)
EscapeRtf ==
    /\ "rtf" \notin escaped
    /\ rtf_out' = _escape(esc_text)
    /\ escaped' = escaped \cup {"rtf"}
    /\ UNCHANGED <<esc_text, tex_out>>

EscapeNext ==
    \/ EscapeTex /\ UNCHANGED <<lexvars, fmtvars, scanvars, cfgvars, resvars, docvars>>
    \/ EscapeRtf /\ UNCHANGED <<lexvars, fmtvars, scanvars, cfgvars, resvars, docvars>>

SpecEscape == EscapeInit /\ [][EscapeNext]_vars

\* token streams of one-word tokens of every kind of category: with a style
\* of its own (by colour or by border), styled through an ancestor, sharing
\* a colour with another category, and without any style; nothing is hidden
\* and nothing is reindented
StyleTokens ==
    [ttype : {Text, Other, Error, Keyword, Keyword_Cilk, Keyword_Custom,
              Punctuation, Name, Name_Class},
     value : {<<"a">>}]
    \cup [ttype : {Other}, value : {<<"a", NL, "b">>}]

StyleInit ==
    /\ FmtInit
    /\ ~options.hidebydefault /\ ~options.reindent
    /\ ~options.texcomments /\ ~options.mathescape /\ ~options.inline
    /\ LexInit
    /\ AuxIdle

StyleNext ==
    \/ CilkBook_begin /\ UNCHANGED <<lexvars, auxvars>>
    \/ /\ Len(consumed) < MaxTokens
       /\ \E tok \in StyleTokens : CilkBook_next(tok)
       /\ UNCHANGED <<lexvars, auxvars>>
    \/ CilkBook_end /\ UNCHANGED <<lexvars, auxvars>>
    \/ CHRtf_begin /\ UNCHANGED <<lexvars, auxvars>>
    \/ /\ Len(consumed) < MaxTokens
       /\ \E tok \in StyleTokens : CHRtf_next(tok)
       /\ UNCHANGED <<lexvars, auxvars>>
    \/ CHRtf_end /\ UNCHANGED <<lexvars, auxvars>>

SpecStyle == StyleInit /\ [][StyleNext]_vars

\* texts of up to MaxLines lines: markers at the start of a line, after
\* blanks, after code, with the angle brackets on the next line and with a
\* continued line; Types: and Keywords: comments in the line form and in
\* block forms; code and a comment with slashes inside; a #line directive
\* after a blank and at the start of its line; a Types: comment with two
\* names and a declaration; a triple-slash comment after a blank; a line
\* that starts with a backslash and a letter
MaxLines == 2

ScanLines ==
    { <<"/", "/", "/", "<", "<", NL>>,
      <<" ", "/", "/", "/", ">", ">", NL>>,
      <<"x", " ", "/", "/", "/", "<", "<", NL>>,
      <<"/", "/", "/", NL>>,
      <<"<", "<", NL>>,
      <<"/", "/", "/", ">", ">", BS, NL>>,
      <<"/", "/", "/", "T", "y", "p", "e", "s", ":", " ", "a", NL>>,
      <<"/", "/", "/", "K", "e", "y", "w", "o", "r", "d", "s", ":", " ", "a", NL>>,
      <<"/", "*", "*", "*", "T", "y", "p", "e", "s", ":", " ", "a", "*", "*", "*", "/", NL>>,
      <<"/", "*", "*", "*", "K", "e", "y", "w", "o", "r", "d", "s", ":", " ", "a",
        "*", "*", "*", "/", NL>>,
      <<"/", "*", " ", "T", "y", "p", "e", "s", ":", " ", "a", " ", "*", "/", NL>>,
      <<"a", NL>>,
      <<"/", "/", "x", "/", "/", "/", "y", NL>>,
      <<" ", "#", "l", "i", "n", "e", " ", "5", NL>>,
      <<"#", "l", "i", "n", "e", " ", "5", NL>>,
      <<"/", "/", "/", " ", "T", "y", "p", "e", "s", ":", " ", "y", " ", "a", NL>>,
      <<"a", " ", "x", ";", NL>>,
      <<" ", "/", "/", "/", "a", NL>>,
      <<BS, "a", NL>> }

ScanTexts == UNION {[1..n -> ScanLines] : n \in 1..MaxLines}

RECURSIVE Concat(_)
Concat(lines) == IF lines = <<>> THEN <<>> ELSE Head(lines) \o Concat(Tail(lines))

ScanInit ==
    /\ src_text \in {Concat(t) : t \in ScanTexts}
    /\ src_pos = 1
    /\ emitted = <<>>
    /\ statestack = <<"root">>
    /\ EscIdle
    /\ CfgIdle
    /\ ResIdle
    /\ DocIdle
    /\ FmtIdle
    /\ LexInit

\* NewStack where a pop takes two states off
RECURSIVE NewStack_pop_two(_, _)
NewStack_pop_two(stack, new_state) ==
    IF new_state = <<>> THEN stack
    ELSE NewStack_pop_two(IF Head(new_state) = "#pop"
                          THEN SubSeq(stack, 1, Len(stack) - 2)
                          ELSE IF Head(new_state) = "#push"
                          THEN Append(stack, stack[Len(stack)])
                          ELSE Append(stack, Head(new_state)),
                          Tail(new_state))

\* the stack after a rule with new_state has matched: "#pop" takes the top
\* state off, a name puts the state on top, a tuple does so in turn
RECURSIVE NewStack(_, _)
NewStack(stack, new_state) ==
    IF new_state = <<>> THEN stack
    ELSE NewStack(IF Head(new_state) = "#pop"
                  THEN SubSeq(stack, 1, Len(stack) - 1)
                  ELSE IF Head(new_state) = "#push"
                  THEN Append(stack, stack[Len(stack)])
                  ELSE Append(stack, Head(new_state)),
                  Tail(new_state))

\* the tokens of the match m are yielded, its callback registers the names
\* of its list, and pos moves behind the match
TakeMatch(m, state) ==
    /\ emitted' = m.tokens
    /\ src_pos' = src_pos + m.len
    /\ statestack' = NewStack(statestack, m.new_state)
    /\ _custom_types' = IF state # "macro" /\ m.rule \in {2, 3}
                        THEN customtypes_callback(_custom_types, m.list)
                        ELSE _custom_types
    /\ _custom_keywords' = IF state # "macro" /\ m.rule = 4
                           THEN customkeywords_callback(_custom_keywords, m.list)
                           ELSE _custom_keywords

\* one turn of the loop of get_tokens_unprocessed: the first rule that
\* matches at pos is taken
ScanStep ==
    /\ src_pos <= Len(src_text) \/ statestack[Len(statestack)] \in {"root", "variable"}
    /\ TakeMatch(MatchAt(src_text, src_pos, statestack[Len(statestack)],
                         _custom_types, _custom_keywords),
                 statestack[Len(statestack)])
    /\ UNCHANGED <<src_text, lexers, yielded, steps, scan_types, scan_keywords,
                   inst_types, inst_keywords, classified, fresh_types,
                   fresh_keywords, expected>>

ScanNext == ScanStep /\ UNCHANGED <<fmtvars, escvars, cfgvars, resvars, docvars>>

SpecScan == ScanInit /\ [][ScanNext]_vars

\* a formatter is constructed with up to MaxGiven options given as strings,
\* valid or not, and then formats a short token stream
MaxGiven == 2

GivenNames == {"hidebydefault", "reindent", "inline", "linenos", "linenostart",
               "linenostep"}

GivenValues == {"yes", "Off", "maybe", "1", "-3"}

GivenOptions ==
    UNION {[names -> GivenValues] :
              names \in {S \in SUBSET GivenNames : Cardinality(S) <= MaxGiven}}

ConfigTokens ==
    {[ttype |-> Text, value |-> <<" ", "a", NL>>],
     [ttype |-> Keyword, value |-> <<"a">>]}

ConfigInit ==
    /\ formatter \in {"cilkbook", "chrtf"}
    /\ options = [hidebydefault |-> FALSE, reindent |-> FALSE, texcomments |-> FALSE,
                  mathescape |-> FALSE, inline |-> FALSE]
    /\ pc = "new"
    /\ skiptoken = FALSE
    /\ initialindent = <<>>
    /\ find_next_indent = FALSE
    /\ newline = FALSE
    /\ wrotelines = FALSE
    /\ outfile = <<>>
    /\ consumed = <<>>
    /\ init_options \in GivenOptions
    /\ EscIdle
    /\ ScanIdle
    /\ ResIdle
    /\ DocIdle
    /\ LexInit

ConfigNext ==
    \/ CilkBook_init /\ UNCHANGED <<lexvars, auxvars>>
    \/ CHRtf_init /\ UNCHANGED <<lexvars, auxvars>>
    \/ CilkBook_begin /\ UNCHANGED <<lexvars, auxvars>>
    \/ /\ Len(consumed) < MaxTokens
       /\ \E tok \in ConfigTokens : CilkBook_next(tok)
       /\ UNCHANGED <<lexvars, auxvars>>
    \/ CilkBook_end /\ UNCHANGED <<lexvars, auxvars>>
    \/ CHRtf_begin /\ UNCHANGED <<lexvars, auxvars>>
    \/ /\ Len(consumed) < MaxTokens
       /\ \E tok \in ConfigTokens : CHRtf_next(tok)
       /\ UNCHANGED <<lexvars, auxvars>>
    \/ CHRtf_end /\ UNCHANGED <<lexvars, auxvars>>

SpecConfig == ConfigInit /\ [][ConfigNext]_vars

\* the state stack of the lexer over every state of CilkLexer.tokens: a text
\* of up to MaxChars characters is scanned; which rule of the current state
\* matches, and how many characters it takes, is left open
MaxChars == 2
MaxDepth == 3

\* a rule by what it does to the position and to the stack: it matches one
\* or more characters, or it can match the empty string before some
\* character, or its pattern is the empty string, which matches anywhere
Consuming(new_state) == [zero |-> FALSE, always |-> FALSE, new_state |-> new_state]
Lookahead(new_state) == [zero |-> TRUE, always |-> FALSE, new_state |-> new_state]
Fallthrough(new_state) == [zero |-> TRUE, always |-> TRUE, new_state |-> new_state]

\* the rules of each state of CilkLexer.tokens, an include as the rules of
\* the included state; 'if0' and 'string', and the rules behind inherit in
\* 'whitespace' and 'macro', are those of the C family lexer
RECURSIVE TableRules(_)
TableRules(state) ==
    CASE state = "root" ->
             TableRules("whitespace") \cup TableRules("keywords") \cup
              TableRules("namespace") \cup {Consuming(<<"decl">>),
              Consuming(<<"function-args-start">>),
              Consuming(<<"variable">>), Fallthrough(<<"statement">>)}
      [] state = "assignment" ->
             TableRules("whitespace") \cup TableRules("statements") \cup
              TableRules("type-cast") \cup TableRules("parentheses") \cup
              {Consuming(<<"#push">>), Consuming(<<"#pop">>),
              Lookahead(<<"#pop">>), Fallthrough(<<"#pop">>)}
      [] state = "assignment-type" ->
             TableRules("type") \cup {Consuming(<<"type">>),
              Lookahead(<<"#pop">>)}
      [] state = "block" ->
             TableRules("whitespace") \cup TableRules("keywords") \cup
              TableRules("namespace") \cup TableRules("type-cast") \cup
              TableRules("parentheses") \cup TableRules("statements") \cup
              {Consuming(<<"block-return">>),
              Consuming(<<"typename-statement">>), Consuming(<<"variable">>),
              Consuming(<<"#pop", "block-novardef">>), Consuming(<<>>),
              Consuming(<<"#pop">>)}
      [] state = "block-for" ->
             TableRules("block") \cup
              {Consuming(<<"#pop", "block-novardef">>)}
      [] state = "block-novardef" ->
             TableRules("whitespace") \cup TableRules("keywords") \cup
              TableRules("type-cast") \cup TableRules("parentheses") \cup
              TableRules("statements") \cup {Consuming(<<>>),
              Consuming(<<"#pop", "block">>),
              Fallthrough(<<"#pop", "block">>)}
      [] state = "block-paren" ->
             TableRules("whitespace") \cup TableRules("keywords") \cup
              TableRules("statements") \cup {Consuming(<<>>),
              Fallthrough(<<"#pop", "block">>)}
      [] state = "block-return" ->
             TableRules("block-novardef") \cup {Consuming(<<"#pop">>)}
      [] state = "class" ->
             TableRules("whitespace") \cup TableRules("keywords") \cup
              TableRules("namespace") \cup TableRules("parentheses") \cup
              {Consuming(<<>>), Consuming(<<"function-args-start">>),
              Consuming(<<"using">>), Consuming(<<"typename-statement">>),
              Consuming(<<"type">>), Consuming(<<"assignment">>),
              Consuming(<<"#pop", "class-end">>), Fallthrough(<<"#pop">>)}
      [] state = "class-end" ->
             TableRules("whitespace") \cup TableRules("keywords") \cup
              TableRules("parentheses") \cup {Consuming(<<>>),
              Consuming(<<"#pop">>), Fallthrough(<<"#pop">>)}
      [] state = "classname" ->
             TableRules("whitespace") \cup TableRules("namespace") \cup
              {Consuming(<<>>), Consuming(<<"type">>),
              Consuming(<<"#pop", "class">>), Fallthrough(<<"#pop">>)}
      [] state = "decl" ->
             TableRules("variable") \cup {Consuming(<<>>),
              Consuming(<<"#pop", "function-args-start">>)}
      [] state = "enum" ->
             TableRules("whitespace") \cup TableRules("namespace") \cup
              TableRules("variable") \cup {Consuming(<<>>),
              Consuming(<<"#pop", "enum-decls">>), Consuming(<<"#pop">>),
              Fallthrough(<<"#pop">>)}
      [] state = "enum-decls" ->
             TableRules("whitespace") \cup {Consuming(<<>>),
              Consuming(<<"assignment">>), Consuming(<<"#pop">>)}
      [] state = "function-args" ->
             TableRules("variable") \cup
              {Consuming(<<"#pop", "function-args-start">>),
              Consuming(<<"#pop", "function-decl-end">>)}
      [] state = "function-args-start" ->
             TableRules("whitespace") \cup TableRules("keywords") \cup
              TableRules("namespace") \cup
              {Consuming(<<"#pop", "function-args">>),
              Consuming(<<"#pop", "typename-function-args">>),
              Consuming(<<>>), Consuming(<<"#pop", "function-decl-end">>)}
      [] state = "function-decl-end" ->
             TableRules("whitespace") \cup TableRules("statements") \cup
              TableRules("parentheses") \cup {Consuming(<<>>),
              Consuming(<<"#pop", "block">>), Consuming(<<"#pop">>),
              Consuming(<<"#pop", "function-ptr-args-start">>)}
      [] state = "function-ptr" ->
             TableRules("whitespace") \cup
              {Consuming(<<"#pop", "function-args-start">>),
              Consuming(<<"#pop", "function-ptr-args-start">>)}
      [] state = "function-ptr-args" ->
             TableRules("variable") \cup
              {Consuming(<<"#pop", "function-ptr-args-start">>),
              Consuming(<<"#pop", "function-ptr-end">>)}
      [] state = "function-ptr-args-start" ->
             TableRules("whitespace") \cup TableRules("keywords") \cup
              TableRules("namespace") \cup
              {Consuming(<<"#pop", "function-ptr-args">>), Consuming(<<>>),
              Consuming(<<"#pop", "function-ptr-end">>)}
      [] state = "function-ptr-end" ->
             TableRules("whitespace") \cup TableRules("parentheses") \cup
              {Consuming(<<"#pop", "block">>), Consuming(<<"#pop">>)}
      [] state = "if0" ->
             {Consuming(<<"#push">>), Consuming(<<"#pop">>), Consuming(<<>>)}
      [] state = "keywords" ->
             {Consuming(<<"root">>), Consuming(<<>>),
              Consuming(<<"template">>), Consuming(<<"switch-pred">>),
              Consuming(<<"block">>), Consuming(<<"block-for">>),
              Consuming(<<"typedef">>), Consuming(<<"classname">>),
              Consuming(<<"struct">>), Consuming(<<"variable">>),
              Consuming(<<"enum">>), Consuming(<<"string">>)}
      [] state = "macro" ->
             {Consuming(<<>>),
              Consuming(<<"#pop", "macro-def-compute", "macro-arglist">>),
              Consuming(<<"#pop", "macro-def-compute">>),
              Consuming(<<"#pop">>)}
      [] state = "macro-arglist" ->
             {Consuming(<<>>), Consuming(<<"#pop">>), Consuming(<<"#push">>)}
      [] state = "macro-def-compute" ->
             TableRules("whitespace") \cup TableRules("statements") \cup
              TableRules("parentheses") \cup {Consuming(<<>>),
              Consuming(<<"#pop">>)}
      [] state = "namespace" ->
             {Consuming(<<>>), Consuming(<<"type">>)}
      [] state = "parentheses" ->
             {Consuming(<<"statement">>), Consuming(<<"#pop">>),
              Consuming(<<"block">>), Consuming(<<"block-paren">>)}
      [] state = "statement" ->
             TableRules("whitespace") \cup TableRules("statements") \cup
              TableRules("parentheses") \cup {Consuming(<<"#pop">>)}
      [] state = "statements" ->
             TableRules("namespace") \cup TableRules("keywords") \cup
              {Consuming(<<"string">>), Consuming(<<>>),
              Consuming(<<"using">>), Consuming(<<"typename-statement">>),
              Consuming(<<"type">>)}
      [] state = "string" ->
             {Consuming(<<"#pop">>), Consuming(<<>>)}
      [] state = "struct" ->
             TableRules("whitespace") \cup TableRules("namespace") \cup
              {Consuming(<<>>), Consuming(<<"type">>),
              Consuming(<<"#pop", "class">>), Fallthrough(<<"#pop">>)}
      [] state = "switch" ->
             TableRules("whitespace") \cup TableRules("keywords") \cup
              TableRules("type-cast") \cup TableRules("parentheses") \cup
              TableRules("statements") \cup {Consuming(<<>>),
              Consuming(<<"variable">>),
              Consuming(<<"#pop", "switch-novardef">>)}
      [] state = "switch-novardef" ->
             TableRules("whitespace") \cup TableRules("keywords") \cup
              TableRules("statements") \cup
              {Fallthrough(<<"#pop", "switch">>)}
      [] state = "switch-pred" ->
             TableRules("block") \cup {Consuming(<<"#pop", "switch">>)}
      [] state = "template" ->
             TableRules("whitespace") \cup TableRules("keywords") \cup
              TableRules("namespace") \cup {Consuming(<<"typename">>),
              Consuming(<<"#pop">>), Consuming(<<"#pop", "template-args">>),
              Consuming(<<>>)}
      [] state = "template-args" ->
             TableRules("function-args") \cup {Consuming(<<"#pop">>),
              Consuming(<<"#pop", "template">>)}
      [] state = "type" ->
             TableRules("whitespace") \cup TableRules("namespace") \cup
              TableRules("keywords") \cup TableRules("typekeyword") \cup
              {Consuming(<<"typename">>), Consuming(<<>>),
              Consuming(<<"#push">>), Consuming(<<"#pop">>)}
      [] state = "type-cast" ->
             {Consuming(<<>>)}
      [] state = "typedef" ->
             TableRules("whitespace") \cup TableRules("keywords") \cup
              TableRules("typekeyword") \cup {Consuming(<<>>),
              Consuming(<<"type">>), Consuming(<<"block">>),
              Fallthrough(<<"#pop">>)}
      [] state = "typekeyword" ->
             TableRules("namespace") \cup {Consuming(<<>>)}
      [] state = "typename" ->
             TableRules("whitespace") \cup {Consuming(<<>>),
              Consuming(<<"type">>), Consuming(<<"#pop">>),
              Consuming(<<"assignment-type">>), Lookahead(<<"#pop">>)}
      [] state = "typename-function-args" ->
             TableRules("typename-statement") \cup
              {Consuming(<<"#pop", "function-args">>)}
      [] state = "typename-statement" ->
             TableRules("whitespace") \cup {Consuming(<<>>),
              Consuming(<<"type">>), Consuming(<<"#pop", "variable">>)}
      [] state = "using" ->
             TableRules("whitespace") \cup TableRules("namespace") \cup
              {Consuming(<<>>), Fallthrough(<<"#pop">>)}
      [] state = "variable" ->
             TableRules("whitespace") \cup TableRules("keywords") \cup
              TableRules("typekeyword") \cup TableRules("parentheses") \cup
              {Consuming(<<>>), Consuming(<<"function-ptr">>),
              Consuming(<<"type">>), Consuming(<<"statement">>),
              Consuming(<<"assignment">>), Lookahead(<<"#pop">>),
              Fallthrough(<<"#pop", "statement">>)}
      [] state = "whitespace" ->
             {Consuming(<<>>), Consuming(<<"if0">>), Consuming(<<"macro">>)}

\* the rules with an empty pattern that leaves the state added to 'statement'
StateRules_fallthrough(state) ==
    TableRules(state) \cup (IF state = "statement" THEN {Fallthrough(<<"#pop">>)}
                            ELSE {})

\* the names of the states of CilkLexer.tokens
States ==
    {"root", "assignment", "assignment-type", "block", "block-for",
     "block-novardef", "block-paren", "block-return", "class",
     "class-end", "classname", "decl", "enum", "enum-decls",
     "function-args", "function-args-start", "function-decl-end",
     "function-ptr", "function-ptr-args", "function-ptr-args-start",
     "function-ptr-end", "if0", "keywords", "macro", "macro-arglist",
     "macro-def-compute", "namespace", "parentheses", "statement",
     "statements", "string", "struct", "switch", "switch-novardef",
     "switch-pred", "template", "template-args", "type", "type-cast",
     "typedef", "typekeyword", "typename", "typename-function-args",
     "typename-statement", "using", "variable", "whitespace"}

\* the table as the lexer class holds it, built once
RuleTable == {<<state, TableRules(state)>> : state \in States}

StateRules(state) == (CHOOSE row \in RuleTable : row[1] = state)[2]

AbstractTexts == UNION {[1..n -> {"c", NL}] : n \in 0..MaxChars}

StackInit ==
    /\ src_text \in AbstractTexts
    /\ src_pos = 1
    /\ emitted = <<>>
    /\ statestack = <<"root">>
    /\ EscIdle
    /\ CfgIdle
    /\ ResIdle
    /\ DocIdle
    /\ FmtIdle
    /\ LexInit

\* the rule r of the current state matches k characters at pos: its token
\* is yielded (here with the new_state of the rule), pos moves behind the
\* match and the stack follows new_state
RuleMatch(r, k) ==
    /\ statestack # <<>>
    /\ r \in StateRules(statestack[Len(statestack)])
    /\ k \in (IF r.zero THEN 0 ELSE 1)..(IF r.always THEN 0
                                         ELSE Len(src_text) - src_pos + 1)
    /\ src_pos > Len(src_text) => r.always
    /\ Len(NewStack(statestack, r.new_state)) <= MaxDepth + (IF k = 0 THEN 1 ELSE 0)
    /\ statestack' = NewStack(statestack, r.new_state)
    /\ src_pos' = src_pos + k
    /\ emitted' = <<[ttype |-> Token,
                     value |-> SubSeq(src_text, src_pos, src_pos + k - 1),
                     new_state |-> r.new_state]>>
    /\ UNCHANGED <<src_text, lexvars>>

\* no rule of the current state matches at pos (RegexLexer): a newline is
\* yielded as Text and the stack is reset to root, any other character is
\* yielded as an Error; pos moves by one
NoRuleMatches ==
    /\ statestack # <<>>
    /\ src_pos <= Len(src_text)
    /\ \A r \in StateRules(statestack[Len(statestack)]) : ~r.always
    /\ statestack' = IF src_text[src_pos] = NL THEN <<"root">> ELSE statestack
    /\ emitted' = <<[ttype |-> IF src_text[src_pos] = NL THEN Text ELSE Error,
                     value |-> <<src_text[src_pos]>>]>>
    /\ src_pos' = src_pos + 1
    /\ UNCHANGED <<src_text, lexvars>>

StackNext ==
    \/ /\ statestack # <<>>
       /\ \E r \in StateRules(statestack[Len(statestack)]) :
              \E k \in 0..MaxChars : RuleMatch(r, k)
       /\ UNCHANGED <<fmtvars, escvars, cfgvars, resvars, docvars>>
    \/ NoRuleMatches /\ UNCHANGED <<fmtvars, escvars, cfgvars, resvars, docvars>>

SpecStack == StackInit /\ [][StackNext]_vars

\* the loop of get_tokens_unprocessed goes on as long as it can
SpecStackLive == StackInit /\ [][StackNext]_vars /\ WF_vars(StackNext)

\* the loops that walk from a token category towards the root, one
\* iteration at a time: the walk of the RTF formatter to a category the
\* style has, the walk of the LaTeX formatter that collects the class
\* names, and the loop of _get_ttype_name; the categories are the ones of
\* the model and every category of up to MaxTypeDepth of three names
MaxTypeDepth == 3

ResolveTypes ==
    ToSet(StyleTypes)
    \cup {Keyword_Custom, Comment_Invisible_Begin, Comment_PureTeX}
    \cup UNION {[1..n -> {"Comment", "Single", "Unknown"}] : n \in 1..MaxTypeDepth}

\* the condition of the loop is false at ttype, read as if the root had a
\* parent to go on with
Resolved_unrooted(walk, ttype) ==
    CASE walk = "rtf" -> styles_token(ttype) /\ ttype # Token
      [] walk = "latex" -> FALSE
      [] walk = "name" -> ttype \in DOMAIN STANDARD_TYPES /\ ttype # Token

\* the condition of the loop is false at ttype:
\* "while not self.style.styles_token(ttype) and ttype.parent",
\* "while ttype is not Token", "while fname is None"
Resolved(walk, ttype) ==
    CASE walk = "rtf" -> styles_token(ttype) \/ ttype = Token
      [] walk = "latex" -> ttype = Token
      [] walk = "name" -> ttype \in DOMAIN STANDARD_TYPES

ResolveInit ==
    /\ \E walk \in {"rtf", "latex", "name"}, ttype \in ResolveTypes :
           resolution = [walk |-> walk, start |-> ttype, ttype |-> ttype, steps |-> 0,
                         done |-> FALSE, raised |-> FALSE]
    /\ EscIdle
    /\ ScanIdle
    /\ CfgIdle
    /\ DocIdle
    /\ FmtIdle
    /\ LexInit

\* one test of the loop condition: the loop ends, or its body goes to
\* ttype.parent; the parent of Token is None, and the next use of it raises
ResolveStep ==
    /\ ~resolution.done
    /\ resolution' =
           IF Resolved(resolution.walk, resolution.ttype)
           THEN [resolution EXCEPT !.done = TRUE]
           ELSE IF resolution.ttype = Token
           THEN [resolution EXCEPT !.done = TRUE, !.raised = TRUE]
           ELSE [resolution EXCEPT !.ttype = Parent(@), !.steps = @ + 1]

ResolveNext ==
    ResolveStep /\ UNCHANGED <<lexvars, fmtvars, escvars, scanvars, cfgvars, docvars>>

\* the loop goes on as long as its condition holds
SpecResolve == ResolveInit /\ [][ResolveNext]_vars /\ WF_vars(ResolveNext)

\* the LaTeX formatter with the option full on or off, and a token source
\* that may raise.  With full set format_unencoded writes to a StringIO
\* buffer, here outfile, and hands the document to the stream it was given
\* in one write at the end; realoutfile holds the writes to that stream
DocHead == "\n\\documentclass{article}...\\begin{document}\n\n\\section*{}\n\n"
DocTail == "\n\\end{document}\n"

\* DOC_TEMPLATE % dict(..., code = code)
Document(code) == <<DocHead>> \o code \o <<DocTail>>

\* the document handed over in two writes, the code apart
CilkBook_flush_split(is_full, writes, code) ==
    IF is_full THEN writes \o <<<<DocHead>>, code \o <<DocTail>>>> ELSE writes

\* "if self.full: realoutfile.write(DOC_TEMPLATE % ...)": the writes to the
\* stream after it
CilkBook_flush(is_full, writes, code) ==
    IF is_full THEN Append(writes, Document(code)) ELSE writes

FullInit ==
    /\ FmtInit
    /\ formatter = "cilkbook"
    /\ full \in BOOLEAN
    /\ realoutfile = <<>>
    /\ LexInit
    /\ EscIdle
    /\ ScanIdle
    /\ CfgIdle
    /\ ResIdle

\* next() of tokensource raises: the exception leaves format_unencoded,
\* which has no handler
TokenSourceRaises ==
    /\ formatter = "cilkbook"
    /\ pc = "loop"
    /\ pc' = "raised"
    /\ UNCHANGED <<formatter, options, skiptoken, initialindent, find_next_indent,
                   newline, wrotelines, outfile, consumed>>

\* format_unencoded from the end of the token loop to its return
CilkBook_finish ==
    /\ CilkBook_end
    /\ realoutfile' = CilkBook_flush(full, realoutfile, outfile')
    /\ UNCHANGED full

FullNext ==
    \/ CilkBook_begin /\ UNCHANGED <<lexvars, auxvars>>
    \/ /\ Len(consumed) < MaxTokens
       /\ \E tok \in ConfigTokens : CilkBook_next(tok)
       /\ UNCHANGED <<lexvars, auxvars>>
    \/ TokenSourceRaises /\ UNCHANGED <<lexvars, auxvars>>
    \/ CilkBook_finish /\ UNCHANGED <<lexvars, escvars, scanvars, cfgvars, resvars>>

SpecFull == FullInit /\ [][FullNext]_vars

\* one scan of one lexer instance
ClassifierNext ==
    \/ lexers[1].scans = 0 /\ get_tokens(1) /\ UNCHANGED <<fmtvars, auxvars>>
    \/ /\ steps < MaxMatches
       /\ \E m \in Matches : Match(1, m.rule, m.text)
       /\ UNCHANGED <<fmtvars, auxvars>>
    \/ EndOfInput(1) /\ UNCHANGED <<fmtvars, auxvars>>

ClassifierInit == FmtIdle /\ LexInit /\ AuxIdle

SpecClassifier == ClassifierInit /\ [][ClassifierNext]_vars

\* the scans of the lexer instances of one process, interleaved
LexersNext ==
    \/ (\E i \in Lexers : get_tokens(i)) /\ UNCHANGED <<fmtvars, auxvars>>
    \/ /\ steps < MaxSteps
       /\ \E i \in Lexers : \E m \in Matches : Match(i, m.rule, m.text)
       /\ UNCHANGED <<fmtvars, auxvars>>
    \/ (\E i \in Lexers : EndOfInput(i)) /\ UNCHANGED <<fmtvars, auxvars>>

SpecLexers == ClassifierInit /\ [][LexersNext]_vars


(***************************************************************************)
(* Properties of the two formatters, checked under SpecFormat.             *)
(***************************************************************************)
IsMarker(ttype) ==
    In(ttype, Comment_Invisible_Begin) \/ In(ttype, Comment_Invisible_End)

\* what the formatter at work wrote before the token loop
Header ==
    IF formatter = "cilkbook" THEN CilkBook_header(options) ELSE CHRtf_header

\* what the token loop wrote so far
LoopOutput == Drop(outfile, Len(Header))

\* one turn of the token loop of the formatter at work
LoopBody(s, ttype, value) ==
    IF formatter = "cilkbook" THEN CilkBook_token(s, options, ttype, value)
    ELSE CHRtf_token(s, options, ttype, value)

BeginMarker == [ttype |-> Comment_Invisible_Begin, value |-> <<"/", "/", "/", NL>>]
EndMarker == [ttype |-> Comment_Invisible_End, value |-> <<"/", "/", "/", NL>>]

\* C1: in both formatters a Begin or End marker writes nothing to the
\* output, and while output is suppressed a token that is not an End marker
\* writes nothing either.
C1_SuppressedWritesNothing ==
    [][(pc = "loop" /\ pc' = "loop" /\ Len(consumed') = Len(consumed) + 1) =>
         LET tok == consumed'[Len(consumed')]
         IN  (IsMarker(tok.ttype)
              \/ (skiptoken /\ ~In(tok.ttype, Comment_Invisible_End)))
             => outfile' = outfile]_vars

\* a Begin marker and then a token with text have gone by, and the output
\* still is the header alone
C1_Witness ==
    /\ pc = "loop"
    /\ ~options.hidebydefault
    /\ Len(consumed) = 2
    /\ In(consumed[1].ttype, Comment_Invisible_Begin)
    /\ ~IsMarker(consumed[2].ttype)
    /\ consumed[2].value # <<>>
    /\ skiptoken
    /\ outfile = Header

\* C2: in both formatters Begin, Begin, End leaves the suppression flag as
\* Begin, End does; an End marker met while not suppressed leaves output
\* not suppressed; a Begin marker met while suppressed leaves it suppressed.
C2_TogglingIdempotent ==
    pc = "loop" =>
        LET B(s) == LoopBody(s, BeginMarker.ttype, BeginMarker.value)
            E(s) == LoopBody(s, EndMarker.ttype, EndMarker.value)
        IN  /\ E(B(B(Locals))).skiptoken = E(B(Locals)).skiptoken
            /\ B(B(Locals)) = B(Locals)
            /\ ~skiptoken => ~E(Locals).skiptoken
            /\ skiptoken => B(Locals).skiptoken

\* the RTF formatter has met two Begin markers in a row and suppresses
C2_Witness ==
    /\ formatter = "chrtf"
    /\ pc = "loop"
    /\ consumed = <<BeginMarker, BeginMarker>>
    /\ skiptoken

RECURSIVE InputNewlines(_)
InputNewlines(toks) ==
    IF toks = <<>> THEN 0
    ELSE Count(Head(toks).value, NL) + InputNewlines(Tail(toks))

\* C4: with no region markers in the input and hidebydefault off, the
\* token loop of either formatter has written as many newlines as the
\* tokens it has consumed contain, invisible comments included.
C4_LineCountPreserved ==
    (/\ pc = "loop"
     /\ ~options.hidebydefault
     /\ \A k \in 1..Len(consumed) : ~IsMarker(consumed[k].ttype))
    => Count(LoopOutput, NL) = InputNewlines(consumed)


(***************************************************************************)
(* Properties of the classifier within one scan, checked under             *)
(* SpecClassifier.                                                         *)
(***************************************************************************)
\* lexer i has just yielded a token
Yields(i) == lexers'[i].pos = lexers[i].pos + 1

\* the token lexer i yielded last comes from a classifying callback
FromClassifier(i) ==
    /\ yielded[i].rule \in RuleNames
    /\ Rules[yielded[i].rule].action \in ClassifyingCallbacks

\* the category a classifying callback falls back to
DefaultCategory(action) ==
    CASE action = "variable_callback" -> Name_Variable
      [] action = "function_callback" -> Name_Function
      [] action = "checkcustom_callback" -> Name
      [] action = "checknamespace_callback" -> Name_Namespace

\* C5 as stated: every identifier token that does not itself declare a name,
\* and whose name was registered earlier in the scan as a custom type, is
\* emitted as Type, and as CustomKeyword when the name was registered as a
\* custom keyword only, whichever rule matches it.
C5_EveryIdentifierConsulted ==
    [][\A i \in Lexers :
         (/\ Yields(i)
          /\ yielded'[i].rule \in IdentRules
          /\ Rules[yielded'[i].rule].action \notin RegisteringCallbacks) =>
             LET name == Strip(yielded'[i].value)
             IN  /\ name \in scan_types[i] => yielded'[i].ttype = Keyword_Type
                 /\ (name \in scan_keywords[i] /\ name \notin scan_types[i])
                        => yielded'[i].ttype = Keyword_Custom]_vars

\* C5: an identifier matched by a rule whose action is a classifying callback
\* is emitted as Type when its name was registered earlier in the scan as a
\* custom type, and as CustomKeyword when it was registered as a custom keyword
\* only; an identifier matched by a rule with a fixed category keeps it.
C5_ClassifyingRulesConsult ==
    [][\A i \in Lexers :
         (Yields(i) /\ yielded'[i].rule \in IdentRules) =>
             LET name == Strip(yielded'[i].value)
                 rule == Rules[yielded'[i].rule]
             IN  /\ rule.action \in ClassifyingCallbacks =>
                        /\ name \in scan_types[i] => yielded'[i].ttype = Keyword_Type
                        /\ (name \in scan_keywords[i] /\ name \notin scan_types[i])
                               => yielded'[i].ttype = Keyword_Custom
                 /\ rule.action = "token" => yielded'[i].ttype = rule.ttype]_vars

\* a name registered by a Types: comment is met in a statement and is
\* emitted as Type
C5_Witness ==
    /\ yielded[1].rule = "statements_779"
    /\ yielded[1].ttype = Keyword_Type
    /\ Strip(yielded[1].value) \in scan_types[1]
    /\ lexers[1].pos = 2

\* C6: a token yielded by a classifying callback is Type when the trimmed name
\* is in the custom types, else CustomKeyword when it is in the custom
\* keywords, else the default category of the callback; a name in both lists
\* is Type.
C6_ClassifyOrder ==
    \A i \in Lexers :
        FromClassifier(i) =>
            LET name == Strip(yielded[i].value)
            IN  yielded[i].ttype =
                    IF name \in ToSet(_custom_types) THEN Keyword_Type
                    ELSE IF name \in ToSet(_custom_keywords) THEN Keyword_Custom
                    ELSE DefaultCategory(Rules[yielded[i].rule].action)

\* a name in both lists has been classified, as Type
C6_Witness ==
    /\ FromClassifier(1)
    /\ Strip(yielded[1].value) \in ToSet(_custom_types)
    /\ Strip(yielded[1].value) \in ToSet(_custom_keywords)
    /\ yielded[1].ttype = Keyword_Type

NoDuplicates(list) ==
    \A j, k \in 1..Len(list) : list[j] = list[k] => j = k

\* C7: each list holds every name at most once, every stored name is trimmed
\* and not empty, and registering a stored name again through any registering
\* callback leaves the list as it is.
C7_RegistrationIdempotent ==
    /\ NoDuplicates(_custom_types)
    /\ NoDuplicates(_custom_keywords)
    /\ \A name \in ToSet(_custom_types) \cup ToSet(_custom_keywords) :
           name # <<>> /\ Strip(name) = name
    /\ \A name \in ToSet(_custom_types) :
           /\ customtypes_callback(_custom_types, name \o <<NL>>) = _custom_types
           /\ typedef_callback(_custom_types, name) = _custom_types
           /\ classname_callback(_custom_types, name) = _custom_types
    /\ \A name \in ToSet(_custom_keywords) :
           customkeywords_callback(_custom_keywords, name \o <<NL>>) = _custom_keywords

\* one Types: comment has listed the same name twice, and the name is
\* stored once
C7_Witness ==
    /\ lexers[1].pos = 1
    /\ yielded[1].rule = "whitespace_149"
    /\ yielded[1].value = CommentHead("whitespace_149") \o <<"a", " ", "a", NL>>
    /\ _custom_types = <<<<"a">>>>

\* C8 as stated: the lists only grow, and a name a callback classified as
\* Type or as CustomKeyword earlier in the scan is classified the same way
\* now.
C8_ClassifiedTheSameWay ==
    \A i \in Lexers : \A c \in classified[i] :
        /\ c[2] = Keyword_Type => c[1] \in ToSet(_custom_types)
        /\ c[2] = Keyword_Custom =>
               c[1] \in ToSet(_custom_keywords) /\ c[1] \notin ToSet(_custom_types)

\* C8: no step removes a name from either list; a name a callback classified
\* as Type earlier in the scan stays in the custom types, and a name classified
\* as CustomKeyword stays in the custom keywords, where it is classified as
\* CustomKeyword until it is registered as a custom type and as Type after.
C8_MonotoneGrowth ==
    [][/\ ToSet(_custom_types) \subseteq ToSet(_custom_types')
       /\ ToSet(_custom_keywords) \subseteq ToSet(_custom_keywords')
       /\ \A i \in Lexers : \A c \in classified'[i] :
              /\ c[2] = Keyword_Type => c[1] \in ToSet(_custom_types')
              /\ c[2] = Keyword_Custom => c[1] \in ToSet(_custom_keywords')]_vars

\* a name classified as CustomKeyword earlier in the scan is a custom type
\* now
C8_Witness ==
    \E c \in classified[1] :
        /\ c[2] = Keyword_Custom
        /\ c[1] \in ToSet(_custom_types)
        /\ c[1] \in ToSet(_custom_keywords)

(***************************************************************************)
(* Properties of the scans of several inputs, checked under SpecLexers.    *)
(***************************************************************************)
\* C3: a token lexer i yields through a classifying callback is Type or
\* CustomKeyword only for a name that lexer i itself registered.
C3_NotShared ==
    \A i \in Lexers :
        FromClassifier(i) =>
            /\ yielded[i].ttype = Keyword_Type =>
                   Strip(yielded[i].value) \in inst_types[i]
            /\ yielded[i].ttype = Keyword_Custom =>
                   Strip(yielded[i].value) \in inst_keywords[i]

\* C9: a token a classifying callback yields as Type names a type that was
\* registered earlier in the same scan.
C9_RegisteredEarlier ==
    \A i \in Lexers :
        (FromClassifier(i) /\ yielded[i].ttype = Keyword_Type) =>
            Strip(yielded[i].value) \in scan_types[i]

\* C10: a scan starts with empty lists, and every token a scan yields is the
\* token the same input yields when it is scanned alone from empty lists.
C10_FreshState ==
    \A i \in Lexers :
        /\ (lexers[i].active /\ lexers[i].pos = 0
            /\ \A j \in Lexers \ {i} : ~lexers[j].active) =>
               _custom_types = <<>> /\ _custom_keywords = <<>>
        /\ yielded[i] = expected[i]


(***************************************************************************)
(* Properties of reindentation, checked under SpecReindent and SpecFormat. *)
(***************************************************************************)
\* the characters of the token values of ReindentTokens
IsPlain(c) == c \in {" ", "x", "y", NL}

\* the text of RTF output without its markup: a group opens with control
\* words up to a blank, \par stands before each newline
RECURSIVE RtfPlain(_, _)
RtfPlain(out, in_control) ==
    IF out = <<>> THEN <<>>
    ELSE IF Head(out) = "{" THEN RtfPlain(Tail(out), TRUE)
    ELSE IF in_control THEN RtfPlain(Tail(out), Head(out) # " ")
    ELSE (IF IsPlain(Head(out)) THEN <<Head(out)>> ELSE <<>>)
         \o RtfPlain(Tail(out), FALSE)

\* the text of the output of the formatter at work without its markup, for
\* token values of plain characters
Written(out) ==
    IF formatter = "chrtf" THEN RtfPlain(out, FALSE) ELSE SelectSeq(out, IsPlain)

\* whether output is suppressed after the markers of toks
RECURSIVE SuppressedAfter(_, _)
SuppressedAfter(toks, skip) ==
    IF toks = <<>> THEN skip
    ELSE SuppressedAfter(Tail(toks),
             IF In(Head(toks).ttype, Comment_Invisible_End) THEN FALSE
             ELSE IF In(Head(toks).ttype, Comment_Invisible_Begin) THEN TRUE
             ELSE skip)

\* the text of a token stream
RECURSIVE InputText(_)
InputText(toks) ==
    IF toks = <<>> THEN <<>> ELSE Head(toks).value \o InputText(Tail(toks))

\* text with one copy of baseline removed from each line that starts with it
StripLines(text, baseline) ==
    LET lines == Split(text, NL)
    IN  Join([k \in 1..Len(lines) |->
                 IF StartsWith(lines[k], baseline)
                 THEN Drop(lines[k], Len(baseline)) ELSE lines[k]],
             <<NL>>)

\* C11: with reindent on, a text token that starts with blanks and comes
\* right after an End marker that made output visible again is written
\* without these blanks, in both formatters.
C11_BaselinePerRegion ==
    [][(/\ pc = "loop" /\ pc' = "loop"
        /\ Len(consumed') = Len(consumed) + 1
        /\ options.reindent
        /\ Len(consumed) >= 1
        /\ In(consumed[Len(consumed)].ttype, Comment_Invisible_End)
        /\ SuppressedAfter(SubSeq(consumed, 1, Len(consumed) - 1),
                           options.hidebydefault)) =>
          LET tok == consumed'[Len(consumed')]
              n == PrefixRun(tok.value, HSpace)
          IN  (tok.ttype = Text /\ n > 0) =>
                  Written(Drop(outfile', Len(outfile))) = Drop(tok.value, n)]_vars

\* C12: with reindent on, no hidden region and a baseline captured from the
\* first token, the text written by the token loop is the text of the
\* tokens with one copy of the baseline removed from every line that starts
\* with it, whatever the category of the tokens, in both formatters.
C12_EveryLineStripped ==
    (/\ pc = "loop"
     /\ options.reindent
     /\ ~options.hidebydefault
     /\ \A k \in 1..Len(consumed) : ~IsMarker(consumed[k].ttype)
     /\ Len(consumed) >= 1
     /\ consumed[1].ttype = Text
     /\ PrefixRun(consumed[1].value, HSpace) > 0) =>
        Written(LoopOutput) =
            StripLines(InputText(consumed),
                       SubSeq(consumed[1].value, 1,
                              PrefixRun(consumed[1].value, HSpace)))

\* C13: a run with reindent on whose baseline stayed empty has written what
\* the same formatter writes for the same tokens with reindent off.
C13_EmptyBaselineNoOp ==
    (pc = "done" /\ options.reindent /\ initialindent = <<>>) =>
        outfile = format_unencoded(formatter, [options EXCEPT !.reindent = FALSE],
                                   consumed)


(***************************************************************************)
(* Properties of the escaping functions, checked under SpecEscape.         *)
(***************************************************************************)
\* the character a LaTeX command \PYZxx{} stands for
TexLiteral(c1, c2) ==
    CASE <<c1, c2>> = <<"b", "s">> -> BS
      [] <<c1, c2>> = <<"o", "b">> -> "{"
      [] <<c1, c2>> = <<"c", "b">> -> "}"
      [] <<c1, c2>> = <<"h", "y">> -> "-"
      [] <<c1, c2>> = <<"d", "l">> -> "$"
      [] OTHER -> "<bad>"

\* LaTeX output read back: each command \PYZxx{} is replaced by its
\* character; a backslash or a brace outside a command cannot be read
RECURSIVE UnescapeTex(_)
UnescapeTex(out) ==
    IF out = <<>> THEN <<>>
    ELSE IF Head(out) = BS
    THEN IF /\ Len(out) >= 8
            /\ SubSeq(out, 2, 4) = <<"P", "Y", "Z">>
            /\ SubSeq(out, 7, 8) = <<"{", "}">>
         THEN <<TexLiteral(out[5], out[6])>> \o UnescapeTex(Drop(out, 8))
         ELSE <<"<bad>">>
    ELSE IF Head(out) \in {"{", "}"} THEN <<"<bad>">>
    ELSE <<Head(out)>> \o UnescapeTex(Tail(out))

\* RTF output read back: a backslash makes the next character literal
RECURSIVE UnescapeRtf(_)
UnescapeRtf(out) ==
    IF out = <<>> THEN <<>>
    ELSE IF Head(out) = BS
    THEN IF Len(out) >= 2 /\ out[2] \in {BS, "{", "}"}
         THEN <<out[2]>> \o UnescapeRtf(Drop(out, 2))
         ELSE <<"<bad>">>
    ELSE IF Head(out) \in {"{", "}"} THEN <<"<bad>">>
    ELSE <<Head(out)>> \o UnescapeRtf(Tail(out))

\* every text with its escaped form
EscapedTex == {<<t, escape_tex(t, commandprefix)>> : t \in EscTexts}
EscapedRtf == {<<t, _escape(t)>> : t \in EscTexts}

\* the number of characters of txt that are in cs
CountIn(txt, cs) == Cardinality({i \in 1..Len(txt) : txt[i] \in cs})

\* C14: reading the escaped text back gives the text, for LaTeX and for RTF;
\* no other text has the same escaped form; each special character grows the
\* text by the length of its escape and by nothing more.
C14_EscapingInjective ==
    /\ "tex" \in escaped =>
           /\ UnescapeTex(tex_out) = esc_text
           /\ \A other \in EscapedTex : other[2] = tex_out => other[1] = esc_text
           /\ Len(tex_out) = Len(esc_text)
                             + 7 * CountIn(esc_text, {BS, "{", "}", "-", "$"})
    /\ "rtf" \in escaped =>
           /\ UnescapeRtf(rtf_out) = esc_text
           /\ \A other \in EscapedRtf : other[2] = rtf_out => other[1] = esc_text
           /\ Len(rtf_out) = Len(esc_text) + CountIn(esc_text, {BS, "{", "}"})

\* a text with a backslash before a brace and a letter of the commands has
\* been escaped for both targets
C14_Witness ==
    /\ escaped = {"tex", "rtf"}
    /\ esc_text = <<BS, "{", "Z">>
    /\ tex_out = Zcmd(commandprefix, "b", "s") \o Zcmd(commandprefix, "o", "b")
                 \o <<"Z">>
    /\ rtf_out = <<BS, BS, BS, "{", "Z">>


(***************************************************************************)
(* Properties of the text the token loops write for one token, checked     *)
(* under SpecFormat.                                                       *)
(***************************************************************************)
\* the loop of the formatter at work has just taken a token
Consumes ==
    /\ pc = "loop" /\ pc' = "loop"
    /\ Len(consumed') = Len(consumed) + 1

\* the text a LaTeX command wraps line by line
WrappedLines(styleval, value) ==
    LET lines == Split(value, NL)
    IN  Join([k \in 1..Len(lines) |->
                 IF lines[k] # <<>> THEN PYCommand(commandprefix, styleval, lines[k])
                 ELSE <<>>],
             <<NL>>)

\* C15: the LaTeX formatter writes the text of a PureTeX comment as it is,
\* line by line inside its command, under every setting of texcomments and
\* mathescape, and writes nothing for it while output is suppressed; the text
\* of a keyword, and of a comment when neither option is set, is written
\* escaped.
C15_PureTeXUnescaped ==
    [][(Consumes /\ formatter = "cilkbook") =>
          LET tok == consumed'[Len(consumed')]
              written == Drop(outfile', Len(outfile))
          IN  /\ In(tok.ttype, Comment_PureTeX) =>
                     written = IF skiptoken THEN <<>>
                               ELSE WrappedLines(StyleVal(tok.ttype), tok.value)
              /\ (/\ ~skiptoken
                  /\ \/ tok.ttype = Keyword
                     \/ /\ tok.ttype = Comment_Single
                        /\ ~options.texcomments /\ ~options.mathescape) =>
                     written = WrappedLines(StyleVal(tok.ttype),
                                            escape_tex(tok.value, commandprefix))]_vars

\* a PureTeX comment with a brace has been written under texcomments and
\* mathescape, and the brace stands in the output as it is
C15_Witness ==
    /\ formatter = "cilkbook"
    /\ pc = "loop"
    /\ options.texcomments /\ options.mathescape
    /\ consumed = <<[ttype |-> Comment_PureTeX, value |-> <<"{", NL>>]>>
    /\ LoopOutput = PYCommand(commandprefix, StyleVal(Comment_PureTeX), <<"{">>)
                    \o <<NL>>

(***************************************************************************)
(* Properties of the style markup of the two formatters, checked under     *)
(* SpecStyle.                                                              *)
(***************************************************************************)
\* sub occurs in seq
Contains(seq, sub) ==
    \E k \in 1..(Len(seq) - Len(sub) + 1) : SubSeq(seq, k, k + Len(sub) - 1) = sub

\* a style attribute applies to the category ttype resolves to
Styled(ttype) ==
    LET d == style_for_token(StyledAncestor(ttype))
    IN  d.color # <<>> \/ d.bgcolor # <<>> \/ d.border # <<>>
        \/ d.bold \/ d.italic \/ d.underline

\* the category or one of its ancestors has a short name
RECURSIVE ShortNamed(_)
ShortNamed(ttype) ==
    /\ ttype # Token
    /\ _get_ttype_name(ttype) # <<>> \/ ShortNamed(Parent(ttype))

\* the text written for a token stands inside style markup: a LaTeX command
\* of the formatter, or an RTF group
Wrapped(written) ==
    IF formatter = "cilkbook"
    THEN Contains(written, <<BS>> \o commandprefix \o <<"{">>)
    ELSE \E k \in 1..Len(written) :
             written[k] = "{" /\ (k = 1 \/ written[k - 1] # BS)

\* C16 as stated: in both formatters the text of a token is wrapped in style
\* markup only if a style attribute applies to the category it resolves to;
\* a token whose category and ancestors carry no style attribute is written
\* bare.
C16_WrappedOnlyIfStyled ==
    [][Consumes =>
          LET tok == consumed'[Len(consumed')]
              written == Drop(outfile', Len(outfile))
          IN  Wrapped(written) => Styled(tok.ttype)]_vars

\* C16, amended: the RTF formatter wraps the text of a token in a group
\* exactly if a style attribute applies to the category it resolves to, and
\* writes it bare otherwise; the LaTeX formatter wraps the text in a command
\* exactly if the category or one of its ancestors has a short name, whether
\* or not a style attribute applies, and writes the text of a Text token
\* bare.
C16_WrappedIfNamed ==
    [][Consumes =>
          LET tok == consumed'[Len(consumed')]
              written == Drop(outfile', Len(outfile))
          IN  /\ formatter = "chrtf" =>
                    /\ Wrapped(written) <=> Styled(tok.ttype)
                    /\ ~Styled(tok.ttype) => written = _escape_text(tok.value)
              /\ formatter = "cilkbook" =>
                    /\ Wrapped(written) <=> ShortNamed(tok.ttype)
                    /\ ~ShortNamed(tok.ttype) =>
                           written = escape_tex(tok.value, commandprefix)]_vars

\* a token of the category Other, which has no style attribute, has been
\* written by the LaTeX formatter inside a command
C16_Witness ==
    /\ formatter = "cilkbook"
    /\ pc = "loop"
    /\ consumed = <<[ttype |-> Other, value |-> <<"a">>]>>
    /\ ~Styled(Other)
    /\ LoopOutput = <<BS, "P", "Y", "{", "x", "}", "{", "a", "}">>

\* int(s) for a string of decimal digits
Digits == {"0", "1", "2", "3", "4", "5", "6", "7", "8", "9"}

RECURSIVE ParseDecimal(_)
ParseDecimal(digits) ==
    IF digits = <<>> THEN 0
    ELSE 10 * ParseDecimal(SubSeq(digits, 1, Len(digits) - 1))
         + HexDigit(digits[Len(digits)])

\* the number that follows the first control word word in out
IndexAfter(out, word) ==
    LET k == CHOOSE i \in 1..Len(out) :
                 out[i] = word /\ \A j \in 1..(i - 1) : out[j] # word
        rest == Drop(out, k)
    IN  ParseDecimal(SubSeq(rest, 1, PrefixRun(rest, Digits)))

\* the entries \redR\greenG\blueB; at the start of out, as triples
RECURSIVE ParseEntries(_)
ParseEntries(out) ==
    IF out = <<>> \/ Head(out) # "\\red" THEN <<>>
    ELSE LET r == PrefixRun(Drop(out, 1), Digits)
             g == PrefixRun(Drop(out, r + 2), Digits)
             b == PrefixRun(Drop(out, r + g + 3), Digits)
         IN  << <<ParseDecimal(SubSeq(out, 2, r + 1)),
                  ParseDecimal(SubSeq(out, r + 3, r + g + 2)),
                  ParseDecimal(SubSeq(out, r + g + 4, r + g + b + 3))>> >>
             \o ParseEntries(Drop(out, r + g + b + 4))

\* the colour table of the RTF document out: what follows "\colortbl;"
TableOf(out) ==
    LET k == CHOOSE i \in 1..Len(out) : out[i] = "\\colortbl"
    IN  ParseEntries(Drop(out, k + 1))

\* the red, green and blue parts of a colour of the style
Rgb(color) ==
    <<Hex2(color[1], color[2]), Hex2(color[3], color[4]), Hex2(color[5], color[6])>>

\* the colours of the style as the header loop meets them, empty ones left out
SeenColors ==
    LET all == StyleColors(StyleTypes)
        IsColor(c) == c # <<>>
        used == SelectSeq(all, IsColor)
    IN  [i \in 1..Len(used) |-> Rgb(used[i])]

FirstAt(rgb) ==
    CHOOSE i \in 1..Len(SeenColors) :
        SeenColors[i] = rgb /\ \A j \in 1..(i - 1) : SeenColors[j] # rgb

\* the control word word in written carries the index of color in table,
\* and is absent if there is no colour
UsesIndex(written, word, color, table) ==
    IF color = <<>> THEN ~Contains(written, <<word>>)
    ELSE /\ Contains(written, <<word>>)
         /\ IndexAfter(written, word) \in 1..Len(table)
         /\ table[IndexAfter(written, word)] = Rgb(color)

\* C17: the colour table of the RTF header lists each distinct colour of the
\* style once, in the order the colours are first met, so that the indices
\* are 1..n; and every \cfN, \cbN and \chcfpatN written for a token carries
\* the index of the colour of the category the token resolves to.
C17_ColourTable ==
    [][(Consumes /\ formatter = "chrtf") =>
          LET tok == consumed'[Len(consumed')]
              written == Drop(outfile', Len(outfile))
              table == TableOf(outfile)
              d == style_for_token(StyledAncestor(tok.ttype))
          IN  /\ NoDuplicates(table)
              /\ ToSet(table) = ToSet(SeenColors)
              /\ \A i, j \in 1..Len(table) :
                     i < j => FirstAt(table[i]) < FirstAt(table[j])
              /\ UsesIndex(written, "\\cf", d.color, table)
              /\ UsesIndex(written, "\\cb", d.bgcolor, table)
              /\ UsesIndex(written, "\\chbrdr\\chcfpat", d.border, table)]_vars

\* a Keyword.Cilk token and an Error token have been written: the colour of
\* the one and the border of the other are both FF0000, the table holds it
\* once, as its second entry, and both control words carry the index 2
C17_Witness ==
    /\ formatter = "chrtf"
    /\ pc = "loop"
    /\ consumed = <<[ttype |-> Keyword_Cilk, value |-> <<"a">>],
                    [ttype |-> Error, value |-> <<"a">>]>>
    /\ TableOf(outfile)[2] = <<255, 0, 0>>
    /\ Cardinality({i \in 1..Len(TableOf(outfile)) :
                        TableOf(outfile)[i] = <<255, 0, 0>>}) = 1
    /\ LoopOutput = <<"{", "\\cf", "2", " ", "a", "}",
                      "{", "\\chbrdr\\chcfpat", "2", " ", "a", "}">>

(***************************************************************************)
(* The start of a run, checked under SpecFormat.                           *)
(***************************************************************************)
\* C18: with hidebydefault set, in both formatters the token loop has
\* written nothing as long as no End marker has been taken, so a stream
\* without an End marker produces no token output; with hidebydefault unset
\* the run starts visible: a first token of text, keyword or comment that is
\* not empty is written.
C18_HiddenUntilFirstEnd ==
    pc = "loop" =>
        /\ (/\ options.hidebydefault
            /\ \A k \in 1..Len(consumed) :
                   ~In(consumed[k].ttype, Comment_Invisible_End)) =>
               LoopOutput = <<>>
        /\ (/\ ~options.hidebydefault
            /\ Len(consumed) = 1
            /\ consumed[1].ttype \in {Text, Keyword, Comment_Single}
            /\ consumed[1].value # <<>>) =>
               LoopOutput # <<>>

\* with hidebydefault set a keyword and then the first End marker have been
\* taken, and nothing is written
C18_Witness ==
    /\ options.hidebydefault
    /\ pc = "loop"
    /\ consumed = <<[ttype |-> Keyword, value |-> <<"a">>], EndMarker>>
    /\ LoopOutput = <<>>

(***************************************************************************)
(* Properties of the comment and marker rules, checked under SpecScan.     *)
(***************************************************************************)
\* the scanner has just matched a rule at src_pos
Scans == src_pos' # src_pos

\* the index of the first newline of rest that no backslash precedes, 0 if
\* there is none
FirstLineEnd(rest) ==
    LET js == {j \in 1..Len(rest) : rest[j] = NL /\ (j = 1 \/ rest[j - 1] # BS)}
    IN  IF js = {} THEN 0 ELSE Min(js)

\* a comment that opens at the start of rest and whose content begins with
\* Types: or Keywords: : its form, its word, its length up to the newline
\* of a line comment or the closing */ of a block comment, and the names of
\* its list
ListComment(rest) ==
    LET line == StartsWith(rest, <<"/", "/", "/">>)
        block == ~line /\ StartsWith(rest, <<"/", "*">>)
        open == IF line THEN 3
                ELSE 2 + PrefixRun(Drop(rest, 2), {"*"})
        content == Drop(rest, open + PrefixRun(Drop(rest, open), HSpace))
        word == IF StartsWith(content, TypesWord) THEN TypesWord
                ELSE IF StartsWith(content, KeywordsWord) THEN KeywordsWord
                ELSE <<>>
        ends == {k \in 1..Len(rest) :
                    IF line THEN rest[k] = NL
                    ELSE k > 2 /\ rest[k - 1] = "*" /\ rest[k] = "/"}
        len == Min(ends)
        list == SubSeq(rest, Len(rest) - Len(content) + Len(word) + 1, len)
        names == {w \in ToSet(Split(SelectSeq(list, LAMBDA c : c \notin {"*", "/", NL}),
                                    " ")) : w # <<>>}
    IN  IF (line \/ block) /\ word # <<>> /\ ends # {}
        THEN [form |-> IF line THEN "line" ELSE "block", word |-> word,
              len |-> len, names |-> names]
        ELSE [form |-> "none"]

\* C19: a line comment or a block comment whose content begins with Types:
\* or Keywords: is yielded as one Comment.Invisible token that covers the
\* whole comment, and every name of its list is then in the list of custom
\* types (Types:) or of custom keywords (Keywords:), for each of the four
\* combinations of form and word.
C19_ListCommentsRegister ==
    [][(Scans /\ ListComment(Drop(src_text, src_pos - 1)).form # "none") =>
          LET rest == Drop(src_text, src_pos - 1)
              c == ListComment(rest)
          IN  /\ emitted' = <<[ttype |-> Comment_Invisible,
                               value |-> SubSeq(rest, 1, c.len)]>>
              /\ c.names \subseteq
                     ToSet(IF c.word = TypesWord THEN _custom_types'
                           ELSE _custom_keywords')]_vars

\* C20: the scanner yields an End or a Begin marker only for a match that
\* starts at the start of a line, where after blanks the three slashes stand
\* and, after blanks on the same line, << for End and >> for Begin; the
\* text of the marker ends with the first newline that no backslash
\* precedes.
C20_MarkerIsWholeLine ==
    [][(/\ Scans
        /\ \E k \in 1..Len(emitted') :
               emitted'[k].ttype \in {Comment_Invisible_End, Comment_Invisible_Begin}) =>
          LET rest == Drop(src_text, src_pos - 1)
              slashes == Drop(rest, PrefixRun(rest, HSpace))
              brackets == Drop(slashes, 3 + PrefixRun(Drop(slashes, 3), HSpace))
          IN  /\ src_pos = 1 \/ src_text[src_pos - 1] = NL
              /\ StartsWith(slashes, <<"/", "/", "/">>)
              /\ StartsWith(brackets,
                            IF emitted'[1].ttype = Comment_Invisible_End
                            THEN <<"<", "<">> ELSE <<">", ">">>)
              /\ emitted' = <<[ttype |-> emitted'[1].ttype,
                               value |-> SubSeq(rest, 1, FirstLineEnd(rest))]>>]_vars

(***************************************************************************)
(* Properties of the #line rule, checked under SpecScan.                   *)
(***************************************************************************)
\* the length of a #line directive at the start of rest: blanks or none,
\* #line, blanks, a decimal number and a newline; 0 if there is none
IsLineDirective(rest) ==
    LET h == PrefixRun(rest, HSpace)
        w == PrefixRun(Drop(rest, h + 5), HSpace)
        d == PrefixRun(Drop(rest, h + 5 + w), Digits10)
    IN  IF /\ StartsWith(Drop(rest, h), DirectiveWord)
           /\ w > 0 /\ d > 0
           /\ Len(rest) > h + 5 + w + d /\ rest[h + 5 + w + d + 1] = NL
        THEN h + 5 + w + d + 1
        ELSE 0

\* the options that are all off
PlainOptions == CHOOSE o \in FmtOptions : \A k \in DOMAIN o : o[k] = FALSE

\* what the token loop of formatter f writes for toks in a visible region
Rendered(f, toks) ==
    Drop(TokenLoop(f, PlainOptions, LoopStart(f, PlainOptions), toks).out,
         Len(LoopStart(f, PlainOptions).out))

\* the scanner is at the start of a line where a #line directive stands,
\* in a state that includes the rules of 'whitespace'
AtLineDirective ==
    /\ src_pos <= Len(src_text)
    /\ src_pos = 1 \/ src_text[src_pos - 1] = NL
    /\ statestack[Len(statestack)] # "macro"
    /\ IsLineDirective(Drop(src_text, src_pos - 1)) > 0

\* C21: the match at the start of a line that holds a #line directive,
\* with or without blanks before it, takes the whole directive, and both
\* formatters write nothing for the tokens it yields: no character and no
\* line.
C21_LineDirectiveInvisible ==
    [][(Scans /\ AtLineDirective) =>
          /\ src_pos' = src_pos + IsLineDirective(Drop(src_text, src_pos - 1))
          /\ Rendered("cilkbook", emitted') = <<>>
          /\ Rendered("chrtf", emitted') = <<>>]_vars

(***************************************************************************)
(* The scenario of a Types: comment and a declaration, under SpecScan.     *)
(***************************************************************************)
\* the length of the type name T if rest is the one line "T x;", else 0
DeclLine(rest) ==
    LET id == PrefixRun(rest, Letters)
        var == PrefixRun(Drop(rest, id + 1), Letters)
    IN  IF /\ id > 0 /\ var > 0
           /\ Len(rest) = id + var + 3
           /\ rest[id + 1] = " "
           /\ rest[id + var + 2] = ";" /\ rest[id + var + 3] = NL
        THEN id
        ELSE 0

\* t is a /// Types: comment line and a declaration line "T x;" where T is
\* one of the names the comment lists
TypesThenDecl(t) ==
    /\ ListComment(t).form = "line"
    /\ ListComment(t).word = TypesWord
    /\ DeclLine(Drop(t, ListComment(t).len)) > 0
    /\ SubSeq(t, ListComment(t).len + 1,
              ListComment(t).len + DeclLine(Drop(t, ListComment(t).len)))
           \in ListComment(t).names

\* the token of the name T of the declaration line of t, with category ttype
DeclType(t, ttype) ==
    [ttype |-> ttype,
     value |-> SubSeq(t, ListComment(t).len + 1,
                      ListComment(t).len + DeclLine(Drop(t, ListComment(t).len)))]

\* C22: for a text made of a /// Types: comment line and a declaration
\* line "T x;" with T a listed name, the match of the comment yields the
\* comment token and leaves every listed name in the list of custom types,
\* also the names that are not used afterwards, and the match at the start
\* of the declaration line yields T as Keyword.Type, not as Name.
C22_TypesThenDeclaration ==
    [][(Scans /\ TypesThenDecl(src_text)) =>
          /\ src_pos = 1 =>
                 /\ emitted' = <<[ttype |-> Comment_Invisible,
                                  value |-> SubSeq(src_text, 1,
                                                   ListComment(src_text).len)]>>
                 /\ ListComment(src_text).names \subseteq ToSet(_custom_types')
          /\ src_pos = ListComment(src_text).len + 1 =>
                 emitted' = <<DeclType(src_text, Keyword_Type)>>]_vars

\* the name T of a declaration behind a comment that lists two names has
\* been yielded as Keyword.Type, and the other name is registered too
C22_Witness ==
    /\ TypesThenDecl(src_text)
    /\ Cardinality(ListComment(src_text).names) = 2
    /\ ListComment(src_text).names \subseteq ToSet(_custom_types)
    /\ emitted = <<DeclType(src_text, Keyword_Type)>>
    /\ src_pos = ListComment(src_text).len + 1 + DeclLine(Drop(src_text,
                                                              ListComment(src_text).len))

(***************************************************************************)
(* Configuration errors, checked under SpecConfig.                         *)
(***************************************************************************)
\* the spellings of a boolean (1/0, yes/no, true/false, on/off, in any
\* case) and of an integer among the option values of the model
BoolSpellings == {"yes", "Off", "1"}
IntSpellings == {"1", "-3"}

\* an option the formatter reads as a boolean or as an integer is given
\* with a value that is none
InvalidConfiguration ==
    \/ \E n \in DOMAIN init_options :
           /\ n \in (IF formatter = "cilkbook" THEN CilkBookBoolOptions
                      ELSE CHRtfBoolOptions)
           /\ init_options[n] \notin BoolSpellings
    \/ \E n \in DOMAIN init_options :
           /\ formatter = "cilkbook" /\ n \in CilkBookIntOptions
           /\ init_options[n] \notin IntSpellings

\* C23: a formatter that is given an invalid value for a boolean or an
\* integer option it reads never gets past its construction: the error is
\* raised there, and at that point no token is consumed and nothing is
\* written; no configuration error is raised later.
C23_ErrorAtConstruction ==
    /\ InvalidConfiguration => pc \in {"new", "error"}
    /\ pc = "error" => InvalidConfiguration /\ consumed = <<>> /\ outfile = <<>>

\* the construction of a LaTeX formatter has raised the error for an
\* integer option, the construction of an RTF formatter for a boolean one
C23_Witness ==
    /\ pc = "error"
    /\ \/ /\ formatter = "cilkbook"
          /\ DOMAIN init_options = {"linenostart"}
          /\ init_options["linenostart"] = "maybe"
       \/ /\ formatter = "chrtf"
          /\ DOMAIN init_options = {"reindent"}
          /\ init_options["reindent"] = "-3"

(***************************************************************************)
(* The state stack, checked under SpecStack and SpecStackLive.             *)
(***************************************************************************)
\* the loop of get_tokens_unprocessed has ended: pos is behind the text and
\* no rule of the current state matches the empty string there
LexDone ==
    /\ src_pos > Len(src_text)
    /\ statestack # <<>>
    /\ \A r \in StateRules(statestack[Len(statestack)]) : ~r.always

C25_NoUnderflow ==
    /\ statestack # <<>>
    /\ statestack[1] = "root"
    /\ \A r \in StateRules("root") : "#pop" \notin ToSet(r.new_state)

\* a rule with a pop has matched and has left root alone on the stack
C25_Witness ==
    /\ statestack = <<"root">>
    /\ emitted # <<>> /\ emitted[1].ttype = Token
    /\ emitted[1].new_state = <<"#pop">>

(***************************************************************************)
(* The line structure of what is written for one token, checked under      *)
(* SpecFormat.                                                             *)
(***************************************************************************)
\* how often sub occurs in seq
Occurrences(seq, sub) ==
    Cardinality({k \in 1..(Len(seq) - Len(sub) + 1) :
                    SubSeq(seq, k, k + Len(sub) - 1) = sub})

\* the line segments of a value that are not empty
NonEmptyLines(value) ==
    Cardinality({k \in 1..Len(Split(value, NL)) : Split(value, NL)[k] # <<>>})

\* line is one command of the formatter with the class list styleval, from
\* its backslash to its closing brace
OneCommand(line, styleval) ==
    LET head == <<BS>> \o commandprefix \o <<"{">> \o styleval \o <<"}", "{">>
    IN  /\ Len(line) > Len(head)
        /\ StartsWith(line, head)
        /\ line[Len(line)] = "}"
        /\ Occurrences(line, <<BS>> \o commandprefix \o <<"{">>) = 1

\* the token taken reaches the code that writes its text
ReachesWrite(tok) ==
    /\ ~skiptoken
    /\ ~IsMarker(tok.ttype)
    /\ ~In(tok.ttype, Comment_Invisible)

\* C26: for a token whose text is written, the LaTeX formatter writes as
\* many newlines as the text has; where the category has a class list, every
\* line it writes is empty or one whole command, one for each line segment
\* of the text that is not empty, so no command holds a newline; the RTF
\* formatter writes one \par for each newline of the text.
C26_WrappedPerLine ==
    [][(Consumes /\ ReachesWrite(consumed'[Len(consumed')])) =>
          LET tok == consumed'[Len(consumed')]
              written == Drop(outfile', Len(outfile))
              lines == Split(written, NL)
          IN  /\ formatter = "cilkbook" =>
                    /\ Count(written, NL) = Count(tok.value, NL)
                    /\ StyleVal(tok.ttype) # <<>> =>
                          /\ \A k \in 1..Len(lines) :
                                 \/ lines[k] = <<>>
                                 \/ OneCommand(lines[k], StyleVal(tok.ttype))
                          /\ Occurrences(written, <<BS>> \o commandprefix \o <<"{">>)
                                 = NonEmptyLines(tok.value)
              /\ formatter = "chrtf" =>
                    Occurrences(written, <<BS, "p", "a", "r">>)
                        = Count(tok.value, NL)]_vars

\* a keyword of two indented lines has been written by the LaTeX formatter
\* as two commands with the newline between them
C26_Witness ==
    /\ formatter = "cilkbook"
    /\ pc = "loop"
    /\ consumed = <<[ttype |-> Keyword, value |-> <<" ", "a", NL, " ", "b">>]>>
    /\ LoopOutput = PYCommand(commandprefix, StyleVal(Keyword), <<" ", "a">>)
                    \o <<NL>>
                    \o PYCommand(commandprefix, StyleVal(Keyword), <<" ", "b">>)

(***************************************************************************)
(* The two formatters side by side, checked under SpecReindent.            *)
(***************************************************************************)
\* the text of the output of formatter f without its markup
PlainText(f, out) ==
    IF f = "chrtf" THEN RtfPlain(out, FALSE) ELSE SelectSeq(out, IsPlain)

\* the formatter that is not at work
OtherFormatter == IF formatter = "cilkbook" THEN "chrtf" ELSE "cilkbook"

\* the local variables of formatter f after the tokens toks
LoopAfter(f, toks) == TokenLoop(f, options, LoopStart(f, options), toks)

\* the formatter at work and a run s of the other formatter agree on the
\* suppression flag, on the baseline and on the lines of code written
SameControl(s) ==
    /\ skiptoken = s.skiptoken
    /\ initialindent = s.initialindent
    /\ Split(PlainText(formatter, LoopOutput), NL)
           = Split(PlainText(OtherFormatter,
                             Drop(s.out, Len(LoopStart(OtherFormatter, options).out))),
                   NL)

\* C27: after the same tokens, under the same setting of hidebydefault and
\* with reindent on, the LaTeX formatter and the RTF formatter have dropped
\* the same tokens, hold the same baseline and have written the same lines of
\* code, markup and escaping apart.
C27_SameControlLogic ==
    pc = "loop" => SameControl(LoopAfter(OtherFormatter, consumed))

(***************************************************************************)
(* The baseline of the first line, checked under SpecFormat.               *)
(***************************************************************************)
\* out from its first character that is no line break of either target
RECURSIVE AfterBreaks(_)
AfterBreaks(out) ==
    IF out # <<>> /\ Head(out) = NL THEN AfterBreaks(Tail(out))
    ELSE IF StartsWith(out, <<BS, "p", "a", "r">>) THEN AfterBreaks(Drop(out, 4))
    ELSE out

\* the last of the tokens taken is a text token that starts with blanks, and
\* the tokens before it put no text on a line: invisible comments, empty
\* text and newlines
FirstLineOfText ==
    /\ Len(consumed) >= 1
    /\ consumed[Len(consumed)].ttype = Text
    /\ PrefixRun(consumed[Len(consumed)].value, HSpace) > 0
    /\ \A k \in 1..(Len(consumed) - 1) :
           \/ consumed[k].ttype = Comment_Invisible
           \/ consumed[k].ttype = Text /\ consumed[k].value \in {<<>>, <<NL>>}

\* C28: with reindent on and output visible from the start, when the first
\* line of text comes after invisible comments, empty tokens or newlines,
\* the baseline is the run of blanks that line starts with and the line is
\* written without it, in both formatters.
C28_BaselineOfFirstLine ==
    (pc = "loop" /\ options.reindent /\ ~options.hidebydefault /\ FirstLineOfText) =>
        /\ initialindent = SubSeq(consumed[Len(consumed)].value, 1,
                                  PrefixRun(consumed[Len(consumed)].value, HSpace))
        /\ AfterBreaks(LoopOutput) # <<>>
        /\ AfterBreaks(LoopOutput)[1] \notin HSpace

(***************************************************************************)
(* The walks up the token categories, checked under SpecResolve.           *)
(***************************************************************************)
\* C29: each of the three walks, from every category, also one the style and
\* the table of short names do not have, ends after at most as many
\* iterations as the category has names, without raising; a walk of the RTF
\* formatter that ends at the root ends at a style without attributes.
C29_ResolutionTerminates ==
    /\ [](/\ resolution.steps <= Len(resolution.start)
          /\ ~resolution.raised
          /\ (resolution.done /\ resolution.walk = "rtf"
                 /\ resolution.ttype = Token) => ~Styled(Token))
    /\ <>resolution.done

\* the walk of the RTF formatter from a category of three unknown names has
\* ended at the root after three iterations
C29_Witness ==
    /\ resolution.walk = "rtf"
    /\ resolution.start = <<"Unknown", "Unknown", "Unknown">>
    /\ resolution.done
    /\ resolution.ttype = Token
    /\ resolution.steps = 3

(***************************************************************************)
(* The content of the verbatim environment, checked under SpecFormat.      *)
(***************************************************************************)
\* the \end line of the LaTeX formatter
EndLine == <<"\\end{", "Verbatim", "}", NL>>

\* what stands between the \begin line and the \end line of a finished run
Body == SubSeq(outfile, Len(Header) + 1, Len(outfile) - Len(EndLine))

\* the environment of a finished run is closed, it is not empty, and it
\* holds one newline and no more where the token loop, which ended with the
\* local variables s, wrote nothing
NeverEmpty(s) ==
    /\ SubSeq(outfile, Len(outfile) - Len(EndLine) + 1, Len(outfile)) = EndLine
    /\ Body # <<>>
    /\ s.out = Header => Body = <<NL>>

\* C30: a finished run of the LaTeX formatter with inline off has written
\* something between the \begin line and the \end line, for every token
\* stream and every setting of the other options; where no token produced
\* output it is exactly one newline.
C30_VerbatimNeverEmpty ==
    (formatter = "cilkbook" /\ pc = "done" /\ ~options.inline) =>
        NeverEmpty(LoopAfter("cilkbook", consumed))

\* a run with hidebydefault and reindent on has taken a keyword, written
\* nothing for it and ended with one newline in the environment
C30_Witness ==
    /\ formatter = "cilkbook"
    /\ pc = "done"
    /\ ~options.inline /\ options.hidebydefault /\ options.reindent
    /\ consumed = <<[ttype |-> Keyword, value |-> <<"a">>]>>
    /\ outfile = Header \o <<NL>> \o EndLine

(***************************************************************************)
(* The text of RTF output, checked under SpecFormat.                       *)
(***************************************************************************)
\* RTF output read back: a group opens with control words up to a blank,
\* \par with its newline is a line break, a backslash before a backslash or
\* a brace stands for that character, a closing brace ends a group
RECURSIVE RtfContent(_, _)
RtfContent(out, in_control) ==
    IF out = <<>> THEN <<>>
    ELSE IF in_control THEN RtfContent(Tail(out), Head(out) # " ")
    ELSE IF Head(out) = "{" THEN RtfContent(Tail(out), TRUE)
    ELSE IF Head(out) = "}" THEN RtfContent(Tail(out), FALSE)
    ELSE IF StartsWith(out, <<BS, "p", "a", "r", NL>>)
    THEN <<NL>> \o RtfContent(Drop(out, 5), FALSE)
    ELSE IF Head(out) = BS /\ Len(out) >= 2 /\ out[2] \in {BS, "{", "}"}
    THEN <<out[2]>> \o RtfContent(Drop(out, 2), FALSE)
    ELSE <<Head(out)>> \o RtfContent(Tail(out), FALSE)

\* C31: for a PureTeX comment that is not suppressed the RTF formatter
\* writes one line break for each newline of its text and no other
\* character of it, with reindent on or off.
C31_PureTeXElided ==
    [][(/\ Consumes
        /\ formatter = "chrtf"
        /\ ~skiptoken
        /\ In(consumed'[Len(consumed')].ttype, Comment_PureTeX)) =>
          LET tok == consumed'[Len(consumed')]
              written == Drop(outfile', Len(outfile))
          IN  /\ RtfContent(written, FALSE) = OnlyNewlines(tok.value)
              /\ Occurrences(written, <<BS, "p", "a", "r">>) = Count(tok.value, NL)]_vars

\* a PureTeX comment of two lines has been written by the RTF formatter as
\* a group that holds one line break
C31_Witness ==
    /\ formatter = "chrtf"
    /\ pc = "loop"
    /\ consumed = <<[ttype |-> Comment_PureTeX, value |-> <<" ", "a", NL, " ", "b">>]>>
    /\ RtfContent(LoopOutput, FALSE) = <<NL>>
    /\ Occurrences(LoopOutput, <<BS, "p", "a", "r", NL>>) = 1
    /\ LoopOutput[1] = "{"

(***************************************************************************)
(* The #line directive and the hidden regions, checked under SpecScan.     *)
(***************************************************************************)
\* skiptoken of formatter f after the tokens toks, from skiptoken = skip
SkipAfter(f, skip, toks) ==
    TokenLoop(f, PlainOptions,
              [LoopStart(f, PlainOptions) EXCEPT !.skiptoken = skip], toks).skiptoken

\* C32: the tokens yielded for a #line directive leave the suppression flag
\* of either formatter as it was, suppressed or not.
C32_DirectiveKeepsVisibility ==
    [][(Scans /\ AtLineDirective) =>
          \A f \in {"cilkbook", "chrtf"}, skip \in BOOLEAN :
              SkipAfter(f, skip, emitted') = skip]_vars

RECURSIVE Braces(_, _, _, _)
Braces(out, d, most, least) ==
    IF out = <<>> THEN [depth |-> d, most |-> most, least |-> least]
    ELSE IF Head(out) = BS /\ Len(out) >= 2 /\ out[2] \in {BS, "{", "}"}
    THEN Braces(Drop(out, 2), d, most, least)
    ELSE IF Head(out) = "{"
    THEN Braces(Tail(out), d + 1, IF d + 1 > most THEN d + 1 ELSE most, least)
    ELSE IF Head(out) = "}"
    THEN Braces(Tail(out), d - 1, most, IF d - 1 < least THEN d - 1 ELSE least)
    ELSE Braces(Tail(out), d, most, least)

\* the depth after the first k characters of the header, which has no brace
\* after a backslash
HeaderDepth(k) ==
    Cardinality({i \in 1..k : CHRtf_header[i] = "{"})
    - Cardinality({i \in 1..k : CHRtf_header[i] = "}"})

\* the braces of the header
HeaderBraces ==
    LET depths == {HeaderDepth(k) : k \in 1..Len(CHRtf_header)}
    IN  [depth |-> HeaderDepth(Len(CHRtf_header)),
         most |-> CHOOSE d \in depths : \A e \in depths : e <= d,
         least |-> CHOOSE d \in depths : \A e \in depths : e >= d]

\* the groups of what was written so far, given the braces whole of the
\* output from the start of the header and the braces body of what the token
\* loop wrote inside the outer group: the header leaves the outer group
\* open, between two tokens only the outer group is open, a finished document
\* closes it with its last character and not before, and the depth stays
\* within limit in the document and within 2 after the header
Grouped(whole, body, limit) ==
    /\ HeaderBraces.depth = 1 /\ HeaderBraces.least >= 1
    /\ whole.most <= limit
    /\ body.most <= 2
    /\ pc = "loop" => whole.depth = 1 /\ body.least >= 1
    /\ pc = "done" =>
          /\ whole.depth = 0
          /\ outfile[Len(outfile)] = "}"
          /\ Braces(SubSeq(LoopOutput, 1, Len(LoopOutput) - 1), 1, 1, 1).least >= 1

\* the braces of the output from the start of the header
WholeBraces ==
    Braces(LoopOutput, HeaderBraces.depth, HeaderBraces.most, HeaderBraces.least)

C35_OneWriteWhenFull ==
    /\ [](full => /\ pc \in {"start", "loop", "raised"} => realoutfile = <<>>
                  /\ pc = "done" => realoutfile = <<Document(outfile)>>)
    /\ [][(~full /\ Consumes) =>
            /\ realoutfile' = <<>>
            /\ outfile' = outfile \o Drop(LoopAfter("cilkbook", consumed').out,
                                           Len(LoopAfter("cilkbook", consumed).out))]_vars

\* with full set the token source has raised after a keyword was taken and
\* buffered, and the stream is untouched
C35_Witness ==
    /\ full
    /\ pc = "raised"
    /\ consumed = <<[ttype |-> Keyword, value |-> <<"a">>]>>
    /\ Len(outfile) > Len(Header)
    /\ realoutfile = <<>>

(***************************************************************************)
(* The text of the tokens of a scan, checked under SpecScan.               *)
(***************************************************************************)
\* C36: the values of the tokens a rule match yields, put together in
\* order, are the text the match took, so the values of all tokens of a scan
\* put together are the text scanned.
C36_Lossless ==
    [][Scans => InputText(emitted') = SubSeq(src_text, src_pos, src_pos' - 1)]_vars

\* the token types the lexer names as pure TeX: Comment.PureTeX of the
\* triple-slash rules and Comment.PureTex of the backslash-line rules
PureTypes == {Comment_PureTeX, Comment_PureTex}

\* the LaTeX formatter writes the value of the token as it is
Unescaped(tok) ==
    /\ In(tok.ttype, Comment_PureTeX)
    /\ CilkBook_escaped(PlainOptions, tok.ttype, tok.value) = tok.value

\* C37: every token a rule yields under a pure TeX type has the one type
\* whose value the LaTeX formatter writes unescaped; none has a type the
\* formatter escapes as a comment.
C37_PureMarkupUnescaped ==
    [][Scans => \A i \in 1..Len(emitted') :
                    emitted'[i].ttype \in PureTypes => Unescaped(emitted'[i])]_vars

=============================================================================
